---- MODULE Spec2Model ----
(***************************************************************************)
(* Remind-Me-Pro: the offline-first sync engine.                           *)
(*                                                                         *)
(* State: the local SQLite tables (users, reminders, categories,           *)
(* saved_places, sync_queue), the remote Supabase tables, the zustand auth *)
(* store, the device's connectivity, and the async calls in flight (each   *)
(* one a task that advances from one await to the next).                   *)
(***************************************************************************)
EXTENDS Integers, Sequences, FiniteSets, TLC

(***************************************************************************)
(* Bounds of the model.                                                    *)
(***************************************************************************)
\* Date.now() / datetime('now') take the values 1..MaxClock.
MaxClock == 2
\* Number of mutation-hook calls (create/update/complete/delete) started.
MaxOps == 2
\* Number of direct sync calls (processSyncQueue, pushToCloud, pullFromCloud,
\* fullSync) started.
MaxSyncCalls == 2

(***************************************************************************)
(* Values.                                                                 *)
(***************************************************************************)
\* SQL NULL / JS null in a timestamp column; real timestamps are >= 1.
NULL == 0

\* Ids are <<prefix, n>>: `guest_${generateId()}` is <<"guest_", n>>, a
\* Supabase account id is <<"uuid", n>>.
GuestId == <<"guest_", 1>>
AccountId == <<"uuid", 1>>
\* A second registered account that used this device before AccountId.
OtherAccountId == <<"uuid", 2>>
NoId == <<"", 0>>

\* Reminder ids (generateId() draws the first one not yet in the table).
ReminderIds == {"r1"}
CategoryIds == {"c1"}
PlaceIds == {"p1"}

\* notification_id of a reminder whose notification was scheduled
\* (notificationScheduler.scheduleReminder returned an id).
ScheduledId == 1

\* Values of the user-editable content of a reminder (title stands for all
\* the content columns that every mapping copies verbatim).
Titles == {"a", "b"}

\* The content a new reminder is created with, and what an edit sets it to.
NewTitles == {"a"}
EditTitles == {"b"}

\* The slots for async calls in flight.
Tasks == {"t1", "t2"}

\* part_016:92  'attempts < 3'
MAX_ATTEMPTS == 3

VARIABLES
    now,            \* wall clock (Date.now(), datetime('now'))
    online,         \* NetInfo: state.isConnected
    user,           \* authStore.user (NoUser when null)
    isAuthenticated, \* authStore.isAuthenticated
    isLoading,      \* authStore.isLoading
    session,        \* the Supabase session's user id (NoId when none)
    users,          \* local table users:        id -> row
    reminders,      \* local table reminders:    id -> row
    categories,     \* local table categories:   id -> row
    saved_places,   \* local table saved_places: id -> row
    sync_queue,     \* local table sync_queue, in rowid (insertion) order
    remote,         \* Supabase table reminders: id -> row
    remoteCats,     \* Supabase table categories: id -> row
    remotePlaces,   \* Supabase table saved_places: id -> row
    tasks,          \* the async calls in flight
    returned,       \* what the latest step returned to its caller (NoReturn: nothing)
    link,           \* the linkGuestToAccount call in flight
    ops,            \* number of mutation-hook calls started
    syncCalls,      \* number of direct sync calls started
    enqueued,       \* number of rows ever inserted into sync_queue
    lastEnqueued,   \* reminder id -> the payload of the row inserted last for it
    remoteCallers,  \* user ids in whose name a remote data call was issued
    storeCalls,     \* the actions of the auth store in flight
    db,             \* database.ts: the module's handle (NoDb when null)
    user_version,   \* the store's PRAGMA user_version
    schema,         \* what the migrations have added to the store
    dbCalls,        \* the calls of getDatabase in flight
    migrations      \* runMigrations calls of this process: started, completed

authVars == <<user, isLoading, isAuthenticated, session>>
localVars == <<users, reminders, categories, saved_places, sync_queue>>
remoteVars == <<remote, remoteCats, remotePlaces>>
countVars == <<ops, syncCalls, enqueued, lastEnqueued>>
ghostVars == <<remoteCallers>>
taskVars == <<tasks, returned>>
dbVars == <<db, user_version, schema, dbCalls, migrations>>
vars == <<now, online, authVars, localVars, remoteVars, taskVars, link, countVars, ghostVars,
         storeCalls, dbVars>>

(***************************************************************************)
(* Helpers.                                                                *)
(***************************************************************************)
Put(f, k, v) == [x \in (DOMAIN f) \cup {k} |-> IF x = k THEN v ELSE f[x]]

Drop(f, k) == [x \in (DOMAIN f) \ {k} |-> f[x]]

EmptyTable == [x \in {} |-> 0]

\* The sequence without its i-th element.
RemoveAt(s, i) == [j \in 1..(Len(s) - 1) |-> IF j < i THEN s[j] ELSE s[j + 1]]


(***************************************************************************)
(* syncService: pure parts.                                                *)
(***************************************************************************)
\* A mutant of isGuestUser: the prefix test is missing.
isGuestUser_NoGate(userId) == FALSE

\* userId.startsWith('guest_')
isGuestUser(userId) == userId[1] = "guest_"

\* SQLite stores booleans as 0/1: `x ? 1 : 0` and Boolean(x).
ToInt(b) == IF b THEN 1 ELSE 0

FromInt(n) == n # 0

\* mappers.mapReminderFromDb: a row of the local table as a Reminder object.
mapReminderFromDb(row) ==
    [ userId      |-> row.user_id,
      title       |-> row.title,
      isCompleted |-> FromInt(row.is_completed),
      isActive    |-> FromInt(row.is_active),
      completedAt |-> row.completed_at,
      isDeleted   |-> FromInt(row.is_deleted),
      notificationId |-> row.notification_id ]

\* The payload the create and update hooks hand to syncReminderToCloud.
SnapshotOf(reminder) ==
    [ title       |-> reminder.title,
      isCompleted |-> reminder.isCompleted,
      isActive    |-> reminder.isActive,
      completedAt |-> reminder.completedAt,
      isDeleted   |-> reminder.isDeleted ]

\* The payload of useCompleteReminder: isCompleted and isActive are literals.
CompletedSnapshotOf(reminder) ==
    [ title       |-> reminder.title,
      isCompleted |-> TRUE,
      isActive    |-> FALSE,
      completedAt |-> reminder.completedAt,
      isDeleted   |-> reminder.isDeleted ]

\* The payload of useDeleteReminder.
DeleteSnapshot == [isDeleted |-> TRUE]

\* `${entityType}-${entityId}-${Date.now()}`
QueueEntryId(entityType, entityId, t) == <<entityType, entityId, t>>

\* INSERT INTO sync_queue fails on its PRIMARY KEY when the id is taken.
QueueIdTaken(q, id) == \E i \in 1..Len(q) : q[i].id = id

\* addToSyncQueue: the queue after the call. A guest id returns at once; a
\* taken id makes the INSERT throw, which leaves the table as it was.
addToSyncQueue(q, entityType, entityId, operation, data, userId, t, n) ==
    IF isGuestUser(userId) THEN q
    ELSE IF QueueIdTaken(q, QueueEntryId(entityType, entityId, t)) THEN q
    ELSE Append(q, [ id              |-> QueueEntryId(entityType, entityId, t),
                     entity_type     |-> entityType,
                     entity_id       |-> entityId,
                     operation       |-> operation,
                     payload         |-> data,
                     created_at      |-> t,
                     attempts        |-> 0,
                     last_attempt_at |-> NULL,
                     user_id         |-> userId,
                     seq             |-> n ])

\* ORDER BY created_at ASC; rows of one created_at stay in rowid order.
RECURSIVE OrderByCreatedAt(_)
OrderByCreatedAt(s) ==
    IF Len(s) <= 1 THEN s
    ELSE LET m == CHOOSE i \in 1..Len(s) :
                    \A j \in 1..Len(s) :
                        \/ s[i].created_at < s[j].created_at
                        \/ s[i].created_at = s[j].created_at /\ i <= j
         IN <<s[m]>> \o OrderByCreatedAt(RemoveAt(s, m))

\* A mutant of PendingItems: the SELECT has no condition on user_id.
PendingItems_AllOwners(q, userId) ==
    OrderByCreatedAt(SelectSeq(q, LAMBDA e : e.attempts < MAX_ATTEMPTS))

\* SELECT * FROM sync_queue WHERE attempts < 3
\*   AND (user_id = ? OR user_id IS NULL) ORDER BY created_at ASC
PendingItems(q, userId) ==
    OrderByCreatedAt(SelectSeq(q, LAMBDA e :
        e.attempts < MAX_ATTEMPTS /\ (e.user_id = userId \/ e.user_id = NoId)))

\* DELETE FROM sync_queue WHERE id = ?
QueueDelete(q, id) == SelectSeq(q, LAMBDA e : e.id # id)

\* A mutant of QueueRecordFailure: the row of a failed item is deleted.
QueueRecordFailure_Drop(q, id, t) == QueueDelete(q, id)

\* UPDATE sync_queue SET attempts = attempts + 1, last_attempt_at = datetime('now')
\*   WHERE id = ?
QueueRecordFailure(q, id, t) ==
    [i \in 1..Len(q) |->
        IF q[i].id = id
        THEN [q[i] EXCEPT !.attempts = @ + 1, !.last_attempt_at = t]
        ELSE q[i]]

\* A mutant of syncReminder: the delete case flips is_deleted.
syncReminder_Toggle(rem, userId, reminderId, operation, data) ==
    IF operation \in {"create", "update"}
    THEN Put(rem, reminderId,
             [ user_id      |-> userId,
               title        |-> data.title,
               is_completed |-> data.isCompleted,
               is_active    |-> data.isActive # FALSE,
               completed_at |-> data.completedAt,
               is_deleted   |-> data.isDeleted ])
    ELSE IF reminderId \in DOMAIN rem
         THEN [rem EXCEPT ![reminderId].is_deleted = ~rem[reminderId].is_deleted]
         ELSE rem

\* syncReminder: the remote table reminders after a call without error.
syncReminder(rem, userId, reminderId, operation, data) ==
    IF operation \in {"create", "update"}
    THEN Put(rem, reminderId,
             [ user_id      |-> userId,
               title        |-> data.title,
               is_completed |-> data.isCompleted,
               is_active    |-> data.isActive # FALSE,
               completed_at |-> data.completedAt,
               is_deleted   |-> data.isDeleted ])
    ELSE IF reminderId \in DOMAIN rem
         THEN [rem EXCEPT ![reminderId].is_deleted = TRUE]
         ELSE rem

\* syncCategory and syncSavedPlace: upsert, or a hard delete by id.
syncOwned(tbl, userId, id, operation) ==
    IF operation \in {"create", "update"}
    THEN Put(tbl, id, [user_id |-> userId])
    ELSE Drop(tbl, id)

\* getPendingSyncCount: SELECT COUNT(*) FROM sync_queue WHERE attempts < 3
getPendingSyncCount(q) == Len(SelectSeq(q, LAMBDA e : e.attempts < MAX_ATTEMPTS))

(***************************************************************************)
(* reminderRepository: the default reads.                                  *)
(***************************************************************************)
getAll(rs, userId) ==
    {id \in DOMAIN rs : rs[id].user_id = userId /\ rs[id].is_deleted = 0}

getActive(rs, userId) ==
    {id \in DOMAIN rs : /\ rs[id].user_id = userId
                        /\ rs[id].is_deleted = 0
                        /\ rs[id].is_active = 1
                        /\ rs[id].is_completed = 0}

\* getById(id) returns a reminder (not null).
getByIdFound(rs, id) == id \in DOMAIN rs /\ rs[id].is_deleted = 0

countActive(rs, userId) == Cardinality(getActive(rs, userId))


(***************************************************************************)
(* The auth store and the tasks.                                           *)
(***************************************************************************)
NoUser == [id |-> NoId, isGuest |-> FALSE]

GuestUser == [id |-> GuestId, isGuest |-> TRUE]

AccountUser == [id |-> AccountId, isGuest |-> FALSE]

NoData == [isDeleted |-> FALSE]

\* A slot: kind is the call it runs, pc the await it stands at; rid, op and
\* data are the arguments of syncReminderToCloud, items / success / failed the
\* locals of processSyncQueue; base is the local table reminders as it was
\* when a fullSync was called.
IdleTask ==
    [ kind |-> "idle", pc |-> "idle", userId |-> NoId, rid |-> "", op |-> "",
      data |-> NoData, items |-> <<>>, success |-> 0, failed |-> 0,
      base |-> EmptyTable ]

\* fn is the function whose return value this is; count, categories and
\* savedPlaces are the {reminders, categories, savedPlaces} of pushToCloud and
\* pullFromCloud.
NoReturn ==
    [ kind |-> "none", fn |-> "none", userId |-> NoId, success |-> 0, failed |-> 0,
      count |-> 0, categories |-> 0, savedPlaces |-> 0 ]

\* error is what the call threw ("" when nothing).
IdleLink == [pc |-> "idle", guestId |-> NoId, error |-> ""]

\* A slot takes a new call when it is idle; the second slot is used only
\* while the first is busy.
Free(t) ==
    /\ tasks[t].pc = "idle"
    /\ t = "t2" => tasks["t1"].pc # "idle"

\* What the call of slot t gets back from fn.
Result(t, fn, s, f, c) ==
    [ kind |-> tasks[t].kind, fn |-> fn, userId |-> tasks[t].userId,
      success |-> s, failed |-> f, count |-> c, categories |-> 0, savedPlaces |-> 0 ]

\* The call of slot t goes on as `task`.
Continue(t, task) ==
    /\ tasks' = [tasks EXCEPT ![t] = task]
    /\ returned' = NoReturn

\* The call of slot t returns from fn without a value.
Return(t, fn) ==
    /\ tasks' = [tasks EXCEPT ![t] = IdleTask]
    /\ returned' = Result(t, fn, 0, 0, 0)

\* A mutant of AfterProcess: a fullSync whose drain had a failure stops.
AfterProcess_FailFast(t, s, f) ==
    /\ returned' = Result(t, "processSyncQueue", s, f, 0)
    /\ tasks' = [tasks EXCEPT ![t] =
                    IF tasks[t].kind = "fullSync" /\ f = 0
                    THEN [tasks[t] EXCEPT !.pc = "push", !.items = <<>>,
                                          !.success = 0, !.failed = 0]
                    ELSE IdleTask]

\* processSyncQueue returns {success: s, failed: f}: fullSync drops the
\* result and goes on with pushToCloud, every other caller is done.
AfterProcess(t, s, f) ==
    /\ returned' = Result(t, "processSyncQueue", s, f, 0)
    /\ tasks' = [tasks EXCEPT ![t] =
                    IF tasks[t].kind = "fullSync"
                    THEN [tasks[t] EXCEPT !.pc = "push", !.items = <<>>,
                                          !.success = 0, !.failed = 0]
                    ELSE IdleTask]

\* pushToCloud returns {reminders: c, categories: cc, savedPlaces: cp}:
\* fullSync goes on with pullFromCloud.
AfterPush(t, c, cc, cp) ==
    /\ returned' = [Result(t, "pushToCloud", 0, 0, c) EXCEPT !.categories = cc,
                                                             !.savedPlaces = cp]
    /\ tasks' = [tasks EXCEPT ![t] =
                    IF tasks[t].kind = "fullSync"
                    THEN [tasks[t] EXCEPT !.pc = "pull"]
                    ELSE IdleTask]

\* pullFromCloud returns {reminders: c, categories: cc, savedPlaces: cp};
\* fullSync then returns.
AfterPull(t, c, cc, cp) ==
    /\ returned' = [Result(t, "pullFromCloud", 0, 0, c) EXCEPT !.categories = cc,
                                                               !.savedPlaces = cp]
    /\ tasks' = [tasks EXCEPT ![t] = IdleTask]

(***************************************************************************)
(* The calls in flight of the auth store and of database.ts.               *)
(***************************************************************************)
\* migrations.ts: const CURRENT_VERSION = 2
CURRENT_VERSION == 2

\* The highest user_version a store on the device can carry: one above the
\* code's (a store written by a later build of the app).
MaxVersion == 3

\* What migration001 creates (tables and their indexes, all IF NOT EXISTS).
Tables == "tables"

\* What migration002 adds, in the order of its statements:
\*   ALTER TABLE users ADD COLUMN is_guest INTEGER DEFAULT 0;
\*   ALTER TABLE sync_queue ADD COLUMN user_id TEXT;
\*   CREATE INDEX IF NOT EXISTS idx_sync_queue_user_id ON sync_queue(user_id);
Migration002Statements == <<"users.is_guest", "sync_queue.user_id", "idx_sync_queue_user_id">>

\* The schema of a store that was migrated to version v.
SchemaAt(v) ==
    (IF v >= 1 THEN {Tables} ELSE {}) \cup
    (IF v >= 2 THEN {Migration002Statements[i] : i \in 1..3} ELSE {})

\* let db: SQLite.SQLiteDatabase | null = null; the handle of 'remindme.db'.
NoDb == "null"
Handle == "remindme.db"

\* The callers of getDatabase, and the callers of the auth store's actions;
\* the second one calls only while the first one's call is in flight.
DbCallers == {"g1", "g2"}
StoreCallers == {"s1", "s2"}

\* A call of getDatabase: pc is the await it stands at, userVersion the local
\* of runMigrations, stmt the statement of migration002 that comes next.
IdleDbCall == [pc |-> "idle", userVersion |-> 0, stmt |-> 1]

\* A call of an action of the auth store: fn is the action, pc the await it
\* stands at, state the user that get() returned, guestId the id made for a
\* new guest.
IdleStoreCall == [fn |-> "none", pc |-> "idle", state |-> NoUser, guestId |-> NoId]

\* The process after the database was opened and migrated and no call of the
\* auth store is in flight.
InitProcess ==
    /\ storeCalls = [c \in StoreCallers |-> IdleStoreCall]
    /\ db = Handle
    /\ user_version = CURRENT_VERSION
    /\ schema = SchemaAt(CURRENT_VERSION)
    /\ dbCalls = [c \in DbCallers |-> IdleDbCall]
    /\ migrations = [started |-> 1, completed |-> 1]

InitCommon ==
    /\ now = 1
    /\ online \in BOOLEAN
    /\ isLoading = FALSE
    /\ InitProcess
    /\ reminders = EmptyTable
    /\ categories = EmptyTable
    /\ saved_places = EmptyTable
    /\ sync_queue = <<>>
    /\ remote = EmptyTable
    /\ remoteCats = EmptyTable
    /\ remotePlaces = EmptyTable
    /\ tasks = [t \in Tasks |-> IdleTask]
    /\ returned = NoReturn
    /\ link = IdleLink
    /\ ops = 0
    /\ syncCalls = 0
    /\ enqueued = 0
    /\ lastEnqueued = [id \in ReminderIds |-> NoData]
    /\ remoteCallers = {}

\* The store after continueAsGuest on a fresh install.
InitGuest ==
    /\ InitCommon
    /\ user = GuestUser
    /\ isAuthenticated = TRUE
    /\ users = [x \in {GuestId} |-> [is_guest |-> 1, email |-> 0]]
    /\ session = NoId

\* The store after signUp / signIn on a fresh install.
InitAccount ==
    /\ InitCommon
    /\ user = AccountUser
    /\ isAuthenticated = TRUE
    /\ users = [x \in {AccountId} |-> [is_guest |-> 0, email |-> 1]]
    /\ session = AccountId

Init == InitGuest \/ InitAccount

(***************************************************************************)
(* The environment.                                                        *)
(***************************************************************************)
Tick ==
    /\ now < MaxClock
    /\ now' = now + 1
    /\ returned' = NoReturn
    /\ UNCHANGED <<storeCalls, dbVars>>
    /\ UNCHANGED <<online, authVars, localVars, remoteVars, tasks, link, countVars,
                   ghostVars>>

NetChange ==
    /\ online' = ~online
    /\ returned' = NoReturn
    /\ UNCHANGED <<storeCalls, dbVars>>
    /\ UNCHANGED <<now, authVars, localVars, remoteVars, tasks, link, countVars,
                   ghostVars>>

(***************************************************************************)
(* useReminders: the mutation hooks up to their call of                    *)
(* syncReminderToCloud. Each starts with the local write.                  *)
(***************************************************************************)
StartMutation(t, id, operation, payload) ==
    /\ tasks' = [tasks EXCEPT ![t] =
                    [IdleTask EXCEPT !.kind = "mutation", !.pc = "sync",
                                     !.userId = user.id, !.rid = id,
                                     !.op = IF operation = "complete" THEN "update"
                                            ELSE operation,
                                     !.data = payload]]
    /\ ops' = ops + 1
    /\ returned' = NoReturn
    /\ UNCHANGED <<storeCalls, dbVars>>
    /\ UNCHANGED <<now, online, authVars, users, categories, saved_places, sync_queue,
                   remoteVars, link, syncCalls, enqueued, lastEnqueued, ghostVars>>

\* useCreateReminder -> reminderRepository.create, then scheduleReminder and
\* updateNotificationId (a time reminder).
CreateReminder(t, title) ==
    /\ Free(t) /\ ops < MaxOps /\ user # NoUser
    /\ ReminderIds \ DOMAIN reminders # {}
    /\ LET id == CHOOSE x \in ReminderIds \ DOMAIN reminders : TRUE
           row == [ user_id |-> user.id, title |-> title, is_completed |-> 0,
                    is_active |-> 1, completed_at |-> NULL, is_deleted |-> 0,
                    notification_id |-> ScheduledId ]
       IN /\ reminders' = Put(reminders, id, row)
          /\ StartMutation(t, id, "create", SnapshotOf(mapReminderFromDb(row)))

\* useUpdateReminder -> reminderRepository.update(id, {title}); it throws
\* 'Reminder not found' when getById finds nothing.
UpdateReminder(t, id, title) ==
    /\ Free(t) /\ ops < MaxOps /\ user # NoUser
    /\ getByIdFound(reminders, id)
    /\ reminders' = [reminders EXCEPT ![id].title = title]
    /\ StartMutation(t, id, "update", SnapshotOf(mapReminderFromDb(reminders'[id])))

\* useCompleteReminder -> reminderRepository.complete(id)
\*   = update(id, {isCompleted: true, isActive: false, completedAt: now})
CompleteReminder(t, id) ==
    /\ Free(t) /\ ops < MaxOps /\ user # NoUser
    /\ getByIdFound(reminders, id)
    /\ reminders' = [reminders EXCEPT ![id].is_completed = 1, ![id].is_active = 0,
                                      ![id].completed_at = now]
    /\ StartMutation(t, id, "complete",
                     CompletedSnapshotOf(mapReminderFromDb(reminders'[id])))

\* useDeleteReminder -> reminderRepository.delete(id)
\*   UPDATE reminders SET is_deleted = 1 WHERE id = ?
DeleteReminder(t, id) ==
    /\ Free(t) /\ ops < MaxOps /\ user # NoUser
    /\ id \in DOMAIN reminders
    /\ reminders' = [reminders EXCEPT ![id].is_deleted = 1]
    /\ StartMutation(t, id, "delete", DeleteSnapshot)

(***************************************************************************)
(* reminderRepository.update, await by await: getById, the UPDATE, getById *)
(* again. useUpdateReminder goes on with syncReminderToCloud when update   *)
(* returns the row.                                                        *)
(***************************************************************************)
\* What a call of the repository threw.
RepositoryError(message) == [NoReturn EXCEPT !.kind = "error", !.fn = message]

\* const existing = await this.getById(id);
\* if (!existing) throw new Error('Reminder not found');
UpdateGetById(t, id, title) ==
    /\ Free(t) /\ ops < MaxOps /\ user # NoUser
    /\ IF getByIdFound(reminders, id)
       THEN /\ tasks' = [tasks EXCEPT ![t] =
                           [IdleTask EXCEPT !.kind = "mutation", !.pc = "updateRun",
                                            !.userId = user.id, !.rid = id,
                                            !.op = "update",
                                            !.data = [title |-> title]]]
            /\ returned' = NoReturn
       ELSE /\ tasks' = tasks
            /\ returned' = RepositoryError("Reminder not found")
    /\ ops' = ops + 1
    /\ UNCHANGED <<storeCalls, dbVars>>
    /\ UNCHANGED <<now, online, authVars, localVars, remoteVars, link, syncCalls,
                   enqueued, lastEnqueued, ghostVars>>

\* await db.runAsync(`UPDATE reminders SET ${setClause} WHERE id = ?`, ...):
\* the columns of the input, on the row of that id whatever its is_deleted.
UpdateRunAsync(t) ==
    LET task == tasks[t]
    IN /\ task.pc = "updateRun"
       /\ reminders' = IF task.rid \in DOMAIN reminders
                       THEN [reminders EXCEPT ![task.rid].title = task.data.title]
                       ELSE reminders
       /\ Continue(t, [task EXCEPT !.pc = "updateReread"])
       /\ UNCHANGED <<storeCalls, dbVars>>
       /\ UNCHANGED <<now, online, authVars, users, categories, saved_places, sync_queue,
                      remoteVars, link, countVars, ghostVars>>

\* const updated = await this.getById(id);
\* if (!updated) throw new Error('Failed to update reminder');
\* return updated;
UpdateReturn(t) ==
    LET task == tasks[t]
    IN /\ task.pc = "updateReread"
       /\ IF getByIdFound(reminders, task.rid)
          THEN /\ tasks' = [tasks EXCEPT ![t] =
                              [task EXCEPT !.pc = "sync",
                                           !.data = SnapshotOf(mapReminderFromDb(
                                                        reminders[task.rid]))]]
               /\ returned' = Result(t, "update", 0, 0, 0)
          ELSE /\ tasks' = [tasks EXCEPT ![t] = IdleTask]
               /\ returned' = RepositoryError("Failed to update reminder")
       /\ UNCHANGED <<storeCalls, dbVars>>
       /\ UNCHANGED <<now, online, authVars, localVars, remoteVars, link, countVars,
                      ghostVars>>

(***************************************************************************)
(* The producers outside the hooks: the notification action 'complete'     *)
(* and the geofence task. Both write the local row and return.             *)
(***************************************************************************)
\* handleComplete -> reminderRepository.complete(id); 'Reminder not found' is
\* caught and logged.
HandleComplete(id) ==
    /\ getByIdFound(reminders, id)
    /\ reminders' = [reminders EXCEPT ![id].is_completed = 1, ![id].is_active = 0,
                                      ![id].completed_at = now]
    /\ returned' = NoReturn
    /\ UNCHANGED <<storeCalls, dbVars>>
    /\ UNCHANGED <<now, online, authVars, users, categories, saved_places, sync_queue,
                   remoteVars, tasks, link, countVars, ghostVars>>

\* handleGeofenceEvent for a reminder that is not recurring:
\*   SELECT * FROM reminders WHERE id = ? AND is_active = 1 AND is_completed = 0
\*   UPDATE reminders SET is_completed = 1, completed_at = datetime('now') WHERE id = ?
HandleGeofenceEvent(id) ==
    /\ id \in DOMAIN reminders
    /\ reminders[id].is_active = 1
    /\ reminders[id].is_completed = 0
    /\ reminders' = [reminders EXCEPT ![id].is_completed = 1, ![id].completed_at = now]
    /\ returned' = NoReturn
    /\ UNCHANGED <<storeCalls, dbVars>>
    /\ UNCHANGED <<now, online, authVars, users, categories, saved_places, sync_queue,
                   remoteVars, tasks, link, countVars, ghostVars>>

(***************************************************************************)
(* useReminders.syncReminderToCloud: the guest gate, addToSyncQueue, then  *)
(* isConnected() and, when connected, the call of processSyncQueue. An     *)
(* error of the INSERT is caught and logged.                               *)
(***************************************************************************)
SyncReminderToCloud(t) ==
    LET task == tasks[t]
        q == addToSyncQueue(sync_queue, "reminder", task.rid, task.op, task.data,
                            task.userId, now, enqueued + 1)
        inserted == Len(q) > Len(sync_queue)
    IN /\ task.pc = "sync"
       /\ IF isGuestUser(task.userId)
          THEN /\ Return(t, "syncReminderToCloud")
               /\ UNCHANGED <<sync_queue, enqueued, lastEnqueued>>
          ELSE /\ sync_queue' = q
               /\ enqueued' = IF inserted THEN enqueued + 1 ELSE enqueued
               /\ lastEnqueued' = IF inserted
                                  THEN [lastEnqueued EXCEPT ![task.rid] = task.data]
                                  ELSE lastEnqueued
               /\ IF inserted /\ online
                  THEN Continue(t, [task EXCEPT !.pc = "queue", !.data = NoData,
                                                !.rid = "", !.op = ""])
                  ELSE Return(t, "syncReminderToCloud")
       /\ UNCHANGED <<storeCalls, dbVars>>
       /\ UNCHANGED <<now, online, authVars, users, reminders, categories, saved_places,
                      remoteVars, link, ops, syncCalls, ghostVars>>

(***************************************************************************)
(* syncService.processSyncQueue.                                           *)
(***************************************************************************)
\* The columns of a selected row that the loop of processSyncQueue reads
\* (seq is carried along with the row).
LoopColumns(e) ==
    [ id |-> e.id, entity_type |-> e.entity_type, entity_id |-> e.entity_id,
      operation |-> e.operation, payload |-> e.payload, seq |-> e.seq ]

\* A mutant of ProcessSyncQueueBegin: isConnected() is not called.
ProcessSyncQueueBegin_NoCheck(t) ==
    LET task == tasks[t]
        selected == PendingItems(sync_queue, task.userId)
        pendingItems == [i \in 1..Len(selected) |-> LoopColumns(selected[i])]
    IN /\ task.pc = "queue"
       /\ IF isGuestUser(task.userId) \/ Len(pendingItems) = 0
          THEN AfterProcess(t, 0, 0)
          ELSE Continue(t, [task EXCEPT !.pc = "drain", !.items = pendingItems,
                                        !.success = 0, !.failed = 0])
       /\ UNCHANGED <<storeCalls, dbVars>>
       /\ UNCHANGED <<now, online, authVars, localVars, remoteVars, link, countVars,
                      ghostVars>>

\* The entry of processSyncQueue: the guest gate, isConnected(), the SELECT.
ProcessSyncQueueBegin(t) ==
    LET task == tasks[t]
        selected == PendingItems(sync_queue, task.userId)
        pendingItems == [i \in 1..Len(selected) |-> LoopColumns(selected[i])]
    IN /\ task.pc = "queue"
       /\ IF isGuestUser(task.userId) \/ ~online \/ Len(pendingItems) = 0
          THEN AfterProcess(t, 0, 0)
          ELSE Continue(t, [task EXCEPT !.pc = "drain", !.items = pendingItems,
                                        !.success = 0, !.failed = 0])
       /\ UNCHANGED <<storeCalls, dbVars>>
       /\ UNCHANGED <<now, online, authVars, localVars, remoteVars, link, countVars,
                      ghostVars>>

\* The remote tables after the remote call of one queue item without error.
RemoteAfterItem(item, userId) ==
    [ reminders |-> IF item.entity_type = "reminder"
                    THEN syncReminder(remote, userId, item.entity_id, item.operation,
                                      item.payload)
                    ELSE remote,
      categories |-> IF item.entity_type = "category"
                     THEN syncOwned(remoteCats, userId, item.entity_id, item.operation)
                     ELSE remoteCats,
      saved_places |-> IF item.entity_type = "saved_place"
                       THEN syncOwned(remotePlaces, userId, item.entity_id, item.operation)
                       ELSE remotePlaces ]

\* One turn of the loop: the remote call of the next item, then the DELETE
\* of its row (no error) or the UPDATE of its attempts (error).
ProcessItem(t, ok) ==
    LET task == tasks[t]
        item == Head(task.items)
        after == RemoteAfterItem(item, task.userId)
        s == IF ok THEN task.success + 1 ELSE task.success
        f == IF ok THEN task.failed ELSE task.failed + 1
    IN /\ task.pc = "drain"
       /\ remoteCallers' = remoteCallers \cup {task.userId}
       /\ IF ok
          THEN /\ remote' = after.reminders
               /\ remoteCats' = after.categories
               /\ remotePlaces' = after.saved_places
               /\ sync_queue' = QueueDelete(sync_queue, item.id)
          ELSE /\ sync_queue' = QueueRecordFailure(sync_queue, item.id, now)
               /\ UNCHANGED remoteVars
       /\ IF Len(task.items) = 1
          THEN AfterProcess(t, s, f)
          ELSE Continue(t, [task EXCEPT !.items = Tail(task.items),
                                        !.success = s, !.failed = f])
       /\ UNCHANGED <<storeCalls, dbVars>>
       /\ UNCHANGED <<now, online, authVars, users, reminders, categories, saved_places,
                      link, countVars>>


(***************************************************************************)
(* Exceptions on the sync path: a local statement (getDatabase, INSERT,     *)
(* SELECT, DELETE, UPDATE) or NetInfo.fetch rejects.                       *)
(***************************************************************************)
\* A mutant of Throw: syncReminderToCloud has no try/catch.
Throw_Uncaught(t) ==
    /\ tasks' = [tasks EXCEPT ![t] = IdleTask]
    /\ returned' = Result(t, "error", 0, 0, 0)

\* The call of slot t throws. Under a mutation hook the catch of
\* syncReminderToCloud logs it and the hook goes on to return; a direct call
\* rejects to its caller.
Throw(t) ==
    IF tasks[t].kind = "mutation"
    THEN Return(t, "syncReminderToCloud")
    ELSE /\ tasks' = [tasks EXCEPT ![t] = IdleTask]
         /\ returned' = Result(t, "error", 0, 0, 0)

\* syncReminderToCloud: addToSyncQueue throws (the row is not inserted), or
\* the row is inserted and isConnected() throws.
SyncReminderToCloudThrows(t, inserted) ==
    LET task == tasks[t]
        q == addToSyncQueue(sync_queue, "reminder", task.rid, task.op, task.data,
                            task.userId, now, enqueued + 1)
    IN /\ task.pc = "sync"
       /\ ~isGuestUser(task.userId)
       /\ inserted => Len(q) > Len(sync_queue)
       /\ sync_queue' = IF inserted THEN q ELSE sync_queue
       /\ enqueued' = IF inserted THEN enqueued + 1 ELSE enqueued
       /\ lastEnqueued' = IF inserted
                          THEN [lastEnqueued EXCEPT ![task.rid] = task.data]
                          ELSE lastEnqueued
       /\ Throw(t)
       /\ UNCHANGED <<storeCalls, dbVars>>
       /\ UNCHANGED <<now, online, authVars, users, reminders, categories, saved_places,
                      remoteVars, link, ops, syncCalls, ghostVars>>

\* processSyncQueue: isConnected(), getDatabase() or the SELECT throws.
ProcessSyncQueueThrows(t) ==
    /\ tasks[t].pc = "queue"
    /\ ~isGuestUser(tasks[t].userId)
    /\ Throw(t)
    /\ UNCHANGED <<storeCalls, dbVars>>
    /\ UNCHANGED <<now, online, authVars, localVars, remoteVars, link, countVars,
                   ghostVars>>

\* A turn of the loop in which the UPDATE of the catch block throws: after a
\* remote error (ok = FALSE), or after the remote call went through and the
\* DELETE threw (ok = TRUE). The queue row is as it was.
ProcessItemThrows(t, ok) ==
    LET task == tasks[t]
        after == RemoteAfterItem(Head(task.items), task.userId)
    IN /\ task.pc = "drain"
       /\ remoteCallers' = remoteCallers \cup {task.userId}
       /\ IF ok
          THEN /\ remote' = after.reminders
               /\ remoteCats' = after.categories
               /\ remotePlaces' = after.saved_places
          ELSE UNCHANGED remoteVars
       /\ Throw(t)
       /\ UNCHANGED <<storeCalls, dbVars>>
       /\ UNCHANGED <<now, online, authVars, localVars, link, countVars>>

\* A turn of the loop in which the remote call went through and the DELETE
\* threw: the catch block counts a failure and the UPDATE adds an attempt.
ProcessItemDeleteFails(t) ==
    LET task == tasks[t]
        item == Head(task.items)
        after == RemoteAfterItem(item, task.userId)
    IN /\ task.pc = "drain"
       /\ remoteCallers' = remoteCallers \cup {task.userId}
       /\ remote' = after.reminders
       /\ remoteCats' = after.categories
       /\ remotePlaces' = after.saved_places
       /\ sync_queue' = QueueRecordFailure(sync_queue, item.id, now)
       /\ IF Len(task.items) = 1
          THEN AfterProcess(t, task.success, task.failed + 1)
          ELSE Continue(t, [task EXCEPT !.items = Tail(task.items),
                                        !.failed = task.failed + 1])
       /\ UNCHANGED <<storeCalls, dbVars>>
       /\ UNCHANGED <<now, online, authVars, users, reminders, categories, saved_places,
                      link, countVars>>

(***************************************************************************)
(* syncService.pushToCloud and pullFromCloud.                              *)
(***************************************************************************)
\* The row pushToCloud upserts for a local reminder row.
PushRow(row, userId) ==
    [ user_id      |-> userId,
      title        |-> row.title,
      is_completed |-> FromInt(row.is_completed),
      is_active    |-> row.is_active # 0,
      completed_at |-> row.completed_at,
      is_deleted   |-> FromInt(row.is_deleted) ]

\* The row INSERT OR REPLACE writes for a remote reminder row: the columns
\* it does not list (notification_id, geofence_id) get their default, NULL.
PullRow(row) ==
    [ user_id      |-> row.user_id,
      title        |-> row.title,
      is_completed |-> ToInt(row.is_completed),
      is_active    |-> ToInt(row.is_active),
      completed_at |-> row.completed_at,
      is_deleted   |-> ToInt(row.is_deleted),
      notification_id |-> NULL ]

\* SELECT * FROM reminders WHERE user_id = ? AND is_deleted = 0
LocalRemindersOf(userId) ==
    {id \in DOMAIN reminders : reminders[id].user_id = userId /\ reminders[id].is_deleted = 0}

\* SELECT * FROM <categories | saved_places> WHERE user_id = ?
OwnedIn(tbl, userId) == {id \in DOMAIN tbl : tbl[id].user_id = userId}

\* A mutant of CloudRemindersOf: the filter on is_deleted is missing.
CloudRemindersOf_WithDeleted(userId) ==
    {id \in DOMAIN remote : remote[id].user_id = userId}

\* supabase.from('reminders').select('*').eq('user_id', ?).eq('is_deleted', false)
CloudRemindersOf(userId) ==
    {id \in DOMAIN remote : remote[id].user_id = userId /\ remote[id].is_deleted = FALSE}

\* f with the rows of the ids in S written by Row.
WriteAll(f, S, Row(_)) ==
    [x \in (DOMAIN f) \cup S |-> IF x \in S THEN Row(x) ELSE f[x]]

\* A mutant of PushToCloud: the first upsert that returns an error ends the
\* push, so no later record is attempted.
PushToCloud_AbortOnFailure(t, okR, okC, okP) ==
    LET task == tasks[t]
        u == task.userId
    IN /\ task.pc = "push"
       /\ IF isGuestUser(u) \/ ~online
          THEN /\ okR = {} /\ okC = {} /\ okP = {}
               /\ AfterPush(t, 0, 0, 0)
               /\ UNCHANGED <<remoteVars, remoteCallers>>
          ELSE /\ okR \subseteq LocalRemindersOf(u)
               /\ okC \subseteq OwnedIn(categories, u)
               /\ okP \subseteq OwnedIn(saved_places, u)
               /\ (okR # LocalRemindersOf(u)) => (okC = {} /\ okP = {})
               /\ (okC # OwnedIn(categories, u)) => (okP = {})
               /\ remote' = WriteAll(remote, okR, LAMBDA id : PushRow(reminders[id], u))
               /\ remoteCats' = WriteAll(remoteCats, okC, LAMBDA id : [user_id |-> u])
               /\ remotePlaces' = WriteAll(remotePlaces, okP, LAMBDA id : [user_id |-> u])
               /\ remoteCallers' =
                     IF LocalRemindersOf(u) \cup OwnedIn(categories, u)
                            \cup OwnedIn(saved_places, u) = {}
                     THEN remoteCallers ELSE remoteCallers \cup {u}
               /\ AfterPush(t, Cardinality(okR), Cardinality(okC), Cardinality(okP))
       /\ UNCHANGED <<storeCalls, dbVars>>
       /\ UNCHANGED <<now, online, authVars, localVars, link, countVars>>

\* pushToCloud: okR, okC, okP are the records whose upsert returns no error.
PushToCloud(t, okR, okC, okP) ==
    LET task == tasks[t]
        u == task.userId
    IN /\ task.pc = "push"
       /\ IF isGuestUser(u) \/ ~online
          THEN /\ okR = {} /\ okC = {} /\ okP = {}
               /\ AfterPush(t, 0, 0, 0)
               /\ UNCHANGED <<remoteVars, remoteCallers>>
          ELSE /\ okR \subseteq LocalRemindersOf(u)
               /\ okC \subseteq OwnedIn(categories, u)
               /\ okP \subseteq OwnedIn(saved_places, u)
               /\ remote' = WriteAll(remote, okR, LAMBDA id : PushRow(reminders[id], u))
               /\ remoteCats' = WriteAll(remoteCats, okC, LAMBDA id : [user_id |-> u])
               /\ remotePlaces' = WriteAll(remotePlaces, okP, LAMBDA id : [user_id |-> u])
               /\ remoteCallers' =
                     IF LocalRemindersOf(u) \cup OwnedIn(categories, u)
                            \cup OwnedIn(saved_places, u) = {}
                     THEN remoteCallers ELSE remoteCallers \cup {u}
               /\ AfterPush(t, Cardinality(okR), Cardinality(okC), Cardinality(okP))
       /\ UNCHANGED <<storeCalls, dbVars>>
       /\ UNCHANGED <<now, online, authVars, localVars, link, countVars>>

\* pullFromCloud: okR, okC, okP tell which of the three selects return data.
PullFromCloud(t, okR, okC, okP) ==
    LET task == tasks[t]
        u == task.userId
        cloudReminders == IF okR THEN CloudRemindersOf(u) ELSE {}
        cloudCategories == IF okC THEN OwnedIn(remoteCats, u) ELSE {}
        cloudPlaces == IF okP THEN OwnedIn(remotePlaces, u) ELSE {}
    IN /\ task.pc = "pull"
       /\ IF isGuestUser(u) \/ ~online
          THEN /\ okR /\ okC /\ okP
               /\ AfterPull(t, 0, 0, 0)
               /\ UNCHANGED <<reminders, categories, saved_places, remoteCallers>>
          ELSE /\ reminders' = WriteAll(reminders, cloudReminders,
                                        LAMBDA id : PullRow(remote[id]))
               /\ categories' = WriteAll(categories, cloudCategories,
                                         LAMBDA id : [user_id |-> remoteCats[id].user_id])
               /\ saved_places' = WriteAll(saved_places, cloudPlaces,
                                           LAMBDA id : [user_id |-> remotePlaces[id].user_id])
               /\ remoteCallers' = remoteCallers \cup {u}
               /\ AfterPull(t, Cardinality(cloudReminders), Cardinality(cloudCategories),
                            Cardinality(cloudPlaces))
       /\ UNCHANGED <<storeCalls, dbVars>>
       /\ UNCHANGED <<now, online, authVars, users, sync_queue, remoteVars, link,
                      countVars>>

(***************************************************************************)
(* Direct calls of the sync service in the name of the active identity.    *)
(***************************************************************************)
StartCall(t, kind, pc) ==
    /\ Free(t) /\ syncCalls < MaxSyncCalls /\ user # NoUser
    /\ tasks' = [tasks EXCEPT ![t] =
                    [IdleTask EXCEPT !.kind = kind, !.pc = pc, !.userId = user.id,
                                     !.base = IF kind = "fullSync" THEN reminders
                                              ELSE EmptyTable]]
    /\ syncCalls' = syncCalls + 1
    /\ returned' = NoReturn
    /\ UNCHANGED <<storeCalls, dbVars>>
    /\ UNCHANGED <<now, online, authVars, localVars, remoteVars, link, ops,
                   enqueued, lastEnqueued, ghostVars>>

CallProcessSyncQueue(t) == StartCall(t, "processSyncQueue", "queue")

CallPushToCloud(t) == StartCall(t, "pushToCloud", "push")

CallPullFromCloud(t) == StartCall(t, "pullFromCloud", "pull")

\* fullSync: the call; its guest gate and isConnected() are FullSyncBegin.
CallFullSync(t) == StartCall(t, "fullSync", "full")

\* fullSync returns at once for a guest or when not connected; otherwise it
\* runs processSyncQueue, pushToCloud and pullFromCloud in turn.
FullSyncBegin(t) ==
    /\ tasks[t].pc = "full"
    /\ IF isGuestUser(tasks[t].userId) \/ ~online
       THEN Return(t, "fullSync")
       ELSE Continue(t, [tasks[t] EXCEPT !.pc = "queue"])
    /\ UNCHANGED <<storeCalls, dbVars>>
    /\ UNCHANGED <<now, online, authVars, localVars, remoteVars, link, countVars,
                   ghostVars>>

(***************************************************************************)
(* Local creation of categories and saved places (Local Record Store,      *)
(* create(ownerId, entityInput)): a local write in the name of the active  *)
(* identity.                                                               *)
(***************************************************************************)
CreateCategory(id) ==
    /\ user # NoUser
    /\ id \notin DOMAIN categories
    /\ categories' = Put(categories, id, [user_id |-> user.id])
    /\ returned' = NoReturn
    /\ UNCHANGED <<storeCalls, dbVars>>
    /\ UNCHANGED <<now, online, authVars, users, reminders, saved_places, sync_queue,
                   remoteVars, tasks, link, countVars, ghostVars>>

CreateSavedPlace(id) ==
    /\ user # NoUser
    /\ id \notin DOMAIN saved_places
    /\ saved_places' = Put(saved_places, id, [user_id |-> user.id])
    /\ returned' = NoReturn
    /\ UNCHANGED <<storeCalls, dbVars>>
    /\ UNCHANGED <<now, online, authVars, users, reminders, categories, sync_queue,
                   remoteVars, tasks, link, countVars, ghostVars>>

(***************************************************************************)
(* authStore.linkGuestToAccount, one action per await.                     *)
(***************************************************************************)
\* UPDATE <table> SET user_id = to WHERE user_id = from
ReassignOwner(tbl, from, to) ==
    [x \in DOMAIN tbl |->
        IF tbl[x].user_id = from THEN [tbl[x] EXCEPT !.user_id = to] ELSE tbl[x]]

\* The call: it throws at once unless the active identity is a guest.
LinkStart ==
    /\ link.pc \in {"idle", "done", "failed", "rejected"}
    /\ IF user.isGuest
       THEN /\ link' = [pc |-> "signUp", guestId |-> user.id, error |-> ""]
            /\ isLoading' = TRUE
       ELSE /\ link' = [pc |-> "rejected", guestId |-> NoId, error |-> "notGuest"]
            /\ UNCHANGED isLoading
    /\ returned' = NoReturn
    /\ UNCHANGED <<storeCalls, dbVars, isAuthenticated>>
    /\ UNCHANGED <<now, online, user, session, localVars, remoteVars, tasks, countVars,
                   ghostVars>>

\* A mutant of LinkSignUp: the reminders are reassigned before signUp has
\* answered.
LinkSignUp_Eager(ok) ==
    /\ link.pc = "signUp"
    /\ reminders' = ReassignOwner(reminders, link.guestId, AccountId)
    /\ IF ok
       THEN /\ link' = [link EXCEPT !.pc = "reminders"]
            /\ session' \in {AccountId, NoId}
            /\ UNCHANGED isLoading
       ELSE /\ link' = [link EXCEPT !.pc = "failed", !.error = "signUp"]
            /\ isLoading' = FALSE
            /\ UNCHANGED session
    /\ returned' = NoReturn
    /\ UNCHANGED <<storeCalls, dbVars, isAuthenticated>>
    /\ UNCHANGED <<now, online, user, users, categories, saved_places, sync_queue,
                   remoteVars, tasks, countVars, ghostVars>>

\* authService.signUp answers: a user (ok), with a session or without one
\* (the address is yet to be confirmed), or an error / no user, which the
\* catch rethrows after set({isLoading: false}).
LinkSignUp(ok) ==
    /\ link.pc = "signUp"
    /\ IF ok
       THEN /\ link' = [link EXCEPT !.pc = "reminders"]
            /\ session' \in {AccountId, NoId}
            /\ UNCHANGED isLoading
       ELSE /\ link' = [link EXCEPT !.pc = "failed", !.error = "signUp"]
            /\ isLoading' = FALSE
            /\ UNCHANGED session
    /\ returned' = NoReturn
    /\ UNCHANGED <<storeCalls, dbVars, isAuthenticated>>
    /\ UNCHANGED <<now, online, user, localVars, remoteVars, tasks, countVars,
                   ghostVars>>

\* UPDATE reminders SET user_id = ? WHERE user_id = ?
LinkReassignReminders ==
    /\ link.pc = "reminders"
    /\ reminders' = ReassignOwner(reminders, link.guestId, AccountId)
    /\ link' = [link EXCEPT !.pc = "queue"]
    /\ returned' = NoReturn
    /\ UNCHANGED <<storeCalls, dbVars>>
    /\ UNCHANGED <<now, online, authVars, users, categories, saved_places, sync_queue,
                   remoteVars, tasks, countVars, ghostVars>>

\* UPDATE sync_queue SET user_id = ? WHERE user_id = ?
LinkReassignQueue ==
    /\ link.pc = "queue"
    /\ sync_queue' = [i \in 1..Len(sync_queue) |->
                         IF sync_queue[i].user_id = link.guestId
                         THEN [sync_queue[i] EXCEPT !.user_id = AccountId]
                         ELSE sync_queue[i]]
    /\ link' = [link EXCEPT !.pc = "deleteGuest"]
    /\ returned' = NoReturn
    /\ UNCHANGED <<storeCalls, dbVars>>
    /\ UNCHANGED <<now, online, authVars, users, reminders, categories, saved_places,
                   remoteVars, tasks, countVars, ghostVars>>

\* DELETE FROM users WHERE id = ?
LinkDeleteGuest ==
    /\ link.pc = "deleteGuest"
    /\ users' = Drop(users, link.guestId)
    /\ link' = [link EXCEPT !.pc = "insertUser"]
    /\ returned' = NoReturn
    /\ UNCHANGED <<storeCalls, dbVars>>
    /\ UNCHANGED <<now, online, authVars, reminders, categories, saved_places, sync_queue,
                   remoteVars, tasks, countVars, ghostVars>>

\* INSERT INTO users (...) VALUES (newUser.id, ..., 0), then
\* set({user: newUser, isAuthenticated: true, isLoading: false}). The INSERT
\* throws when the id is taken.
LinkInsertUser ==
    /\ link.pc = "insertUser"
    /\ IF AccountId \in DOMAIN users
       THEN /\ link' = [link EXCEPT !.pc = "failed", !.error = "storage"]
            /\ isLoading' = FALSE
            /\ UNCHANGED <<user, isAuthenticated, users>>
       ELSE /\ users' = Put(users, AccountId, [is_guest |-> 0, email |-> 1])
            /\ user' = AccountUser
            /\ isAuthenticated' = TRUE
            /\ isLoading' = FALSE
            /\ link' = [link EXCEPT !.pc = "done"]
    /\ returned' = NoReturn
    /\ UNCHANGED <<storeCalls, dbVars>>
    /\ UNCHANGED <<now, online, session, reminders, categories, saved_places, sync_queue,
                   remoteVars, tasks, countVars, ghostVars>>

\* A statement of the local steps throws (storage error): the catch sets
\* isLoading to false and rethrows; nothing is rolled back.
LinkStorageError ==
    /\ link.pc \in {"reminders", "queue", "deleteGuest", "insertUser"}
    /\ link' = [link EXCEPT !.pc = "failed", !.error = "storage"]
    /\ isLoading' = FALSE
    /\ returned' = NoReturn
    /\ UNCHANGED <<storeCalls, dbVars, isAuthenticated>>
    /\ UNCHANGED <<now, online, user, session, localVars, remoteVars, tasks, countVars,
                   ghostVars>>

(***************************************************************************)
(* The process is killed and started again: what is in memory is lost and  *)
(* authStore.initialize picks the identity.                                *)
(***************************************************************************)
\* initialize: the session's user, else a local user with an email, else the
\* local guest, else none.
ResolveIdentity(sess, us) ==
    IF sess # NoId THEN [id |-> sess, isGuest |-> FALSE]
    ELSE IF \E x \in DOMAIN us : us[x].is_guest = 0 /\ us[x].email # 0
         THEN [id |-> CHOOSE x \in DOMAIN us : us[x].is_guest = 0 /\ us[x].email # 0,
               isGuest |-> FALSE]
    ELSE IF \E x \in DOMAIN us : us[x].is_guest = 1
         THEN [id |-> CHOOSE x \in DOMAIN us : us[x].is_guest = 1, isGuest |-> TRUE]
    ELSE NoUser

\* initialize writes the session's user into the table users.
UsersAfterInitialize(sess, us) ==
    IF sess # NoId THEN Put(us, sess, [is_guest |-> 0, email |-> 1]) ELSE us

\* What a kill and a cold start do to the memory of the process.
ColdStart ==
    /\ tasks' = [t \in Tasks |-> IdleTask]
    /\ returned' = NoReturn
    /\ link' = IdleLink
    /\ user' = ResolveIdentity(session, users)
    /\ isAuthenticated' = (ResolveIdentity(session, users) # NoUser)
    /\ users' = UsersAfterInitialize(session, users)
    /\ isLoading' = FALSE

Restart ==
    /\ \/ \E t \in Tasks : tasks[t].pc # "idle"
       \/ link.pc \in {"signUp", "reminders", "queue", "deleteGuest", "insertUser"}
    /\ ColdStart
    /\ UNCHANGED <<storeCalls, dbVars>>
    /\ UNCHANGED <<now, online, session, reminders, categories, saved_places, sync_queue,
                   remoteVars, countVars, ghostVars>>

\* The process is killed between the answer of an item's remote call and the
\* DELETE of its queue row.
ProcessItemKilled(t) ==
    LET task == tasks[t]
        item == Head(task.items)
        after == RemoteAfterItem(item, task.userId)
    IN /\ task.pc = "drain"
       /\ remote' = after.reminders
       /\ remoteCats' = after.categories
       /\ remotePlaces' = after.saved_places
       /\ remoteCallers' = remoteCallers \cup {task.userId}
       /\ ColdStart
       /\ UNCHANGED <<storeCalls, dbVars>>
       /\ UNCHANGED <<now, online, session, reminders, categories, saved_places,
                      sync_queue, countVars>>

\* clearFailedSyncItems: DELETE FROM sync_queue WHERE attempts >= 3; it
\* returns result.changes.
ClearFailedSyncItems ==
    /\ sync_queue' = SelectSeq(sync_queue, LAMBDA e : e.attempts < MAX_ATTEMPTS)
    /\ returned' = [NoReturn EXCEPT !.fn = "clearFailedSyncItems",
                                    !.count = Len(sync_queue) - Len(sync_queue')]
    /\ UNCHANGED <<storeCalls, dbVars>>
    /\ UNCHANGED <<now, online, authVars, users, reminders, categories, saved_places,
                   remoteVars, tasks, link, countVars, ghostVars>>

(***************************************************************************)
(* A second device of the account: it has soft-deleted reminder id and its  *)
(* delete entry was drained (syncReminder, operation 'delete'), at a time  *)
(* when no fullSync of this device is under way.                           *)
(***************************************************************************)
OtherDeviceDelete(id) ==
    /\ \A t \in Tasks : tasks[t].kind # "fullSync"
    /\ id \in DOMAIN remote
    /\ remote[id].user_id = AccountId
    /\ remote[id].is_deleted = FALSE
    /\ remote' = syncReminder(remote, AccountId, id, "delete", DeleteSnapshot)
    /\ remoteCallers' = remoteCallers \cup {AccountId}
    /\ returned' = NoReturn
    /\ UNCHANGED <<storeCalls, dbVars>>
    /\ UNCHANGED <<now, online, authVars, localVars, remoteCats, remotePlaces, tasks,
                   link, countVars>>

(***************************************************************************)
(* authStore: continueAsGuest, signOut and updatePremiumStatus, one action *)
(* per await (the await of getDatabase is joined with what follows it).    *)
(***************************************************************************)
\* The ids that generateId() makes for guests.
GuestIds == {GuestId, <<"guest_", 2>>}

\* SELECT * FROM users WHERE is_guest = 1
GuestRows(us) == {id \in DOMAIN us : us[id].is_guest = 1}

\* An action of the store returned to its caller.
StoreReturn(fn) == [NoReturn EXCEPT !.kind = "store", !.fn = fn]

\* A call of the store starts in slot c.
StoreFree(c) ==
    /\ storeCalls[c].pc = "idle"
    /\ c = "s2" => storeCalls["s1"].pc # "idle"

\* const existingGuest = await db.getFirstAsync(
\*     'SELECT * FROM users WHERE is_guest = 1 LIMIT 1');
\* if (existingGuest) set({user: {id: existingGuest.id, ..., isGuest: true},
\*                         isAuthenticated: true, isLoading: false})
\* else guestId = `guest_${generateId()}` and the INSERT is sent.
ContinueAsGuest(c) ==
    /\ StoreFree(c)
    /\ IF GuestRows(users) # {}
       THEN /\ \E id \in GuestRows(users) : user' = [id |-> id, isGuest |-> TRUE]
            /\ isAuthenticated' = TRUE
            /\ isLoading' = FALSE
            /\ storeCalls' = storeCalls
            /\ returned' = StoreReturn("continueAsGuest")
       ELSE /\ \E id \in GuestIds \ (DOMAIN users \cup
                                     {storeCalls[x].guestId : x \in StoreCallers}) :
                  storeCalls' = [storeCalls EXCEPT ![c] =
                                    [IdleStoreCall EXCEPT !.fn = "continueAsGuest",
                                                          !.pc = "insert",
                                                          !.guestId = id]]
            /\ returned' = NoReturn
            /\ UNCHANGED <<user, isAuthenticated, isLoading>>
    /\ UNCHANGED <<now, online, session, localVars, remoteVars, tasks, link, countVars,
                   ghostVars, dbVars>>

\* await db.runAsync(`INSERT INTO users (id, email, display_name, is_premium,
\*                    is_guest) VALUES (?, ?, ?, ?, ?)`, [guestId, null, 'Guest', 0, 1])
ContinueAsGuestInsert(c) ==
    LET call == storeCalls[c]
    IN /\ call.fn = "continueAsGuest" /\ call.pc = "insert"
       /\ users' = Put(users, call.guestId, [is_guest |-> 1, email |-> 0])
       /\ storeCalls' = [storeCalls EXCEPT ![c].pc = "set"]
       /\ returned' = NoReturn
       /\ UNCHANGED <<now, online, authVars, reminders, categories, saved_places,
                      sync_queue, remoteVars, tasks, link, countVars, ghostVars, dbVars>>

\* set({user: {id: guestId, ..., isGuest: true}, isAuthenticated: true,
\*      isLoading: false})
ContinueAsGuestSet(c) ==
    LET call == storeCalls[c]
    IN /\ call.fn = "continueAsGuest" /\ call.pc = "set"
       /\ user' = [id |-> call.guestId, isGuest |-> TRUE]
       /\ isAuthenticated' = TRUE
       /\ isLoading' = FALSE
       /\ storeCalls' = [storeCalls EXCEPT ![c] = IdleStoreCall]
       /\ returned' = StoreReturn("continueAsGuest")
       /\ UNCHANGED <<now, online, session, localVars, remoteVars, tasks, link,
                      countVars, ghostVars, dbVars>>

\* signOut: const state = get();
\* if (state.user && !state.user.isGuest) await authService.signOut();
SignOut(c) ==
    /\ StoreFree(c)
    /\ storeCalls' = [storeCalls EXCEPT ![c] =
                         [IdleStoreCall EXCEPT !.fn = "signOut",
                                               !.pc = IF user # NoUser /\ ~user.isGuest
                                                      THEN "authSignOut" ELSE "delete",
                                               !.state = user]]
    /\ returned' = NoReturn
    /\ UNCHANGED <<now, online, authVars, localVars, remoteVars, tasks, link, countVars,
                   ghostVars, dbVars>>

\* authService.signOut() resolves: the Supabase session is gone.
SignOutSession(c) ==
    LET call == storeCalls[c]
    IN /\ call.fn = "signOut" /\ call.pc = "authSignOut"
       /\ session' = NoId
       /\ storeCalls' = [storeCalls EXCEPT ![c].pc = "delete"]
       /\ returned' = NoReturn
       /\ UNCHANGED <<now, online, user, isLoading, isAuthenticated, localVars,
                      remoteVars, tasks, link, countVars, ghostVars, dbVars>>

\* if (state.user) await db.runAsync('DELETE FROM users WHERE id = ?',
\*                                   [state.user.id]);
SignOutDelete(c) ==
    LET call == storeCalls[c]
    IN /\ call.fn = "signOut" /\ call.pc = "delete"
       /\ users' = IF call.state # NoUser THEN Drop(users, call.state.id) ELSE users
       /\ storeCalls' = [storeCalls EXCEPT ![c].pc = "set"]
       /\ returned' = NoReturn
       /\ UNCHANGED <<now, online, authVars, reminders, categories, saved_places,
                      sync_queue, remoteVars, tasks, link, countVars, ghostVars, dbVars>>

\* set({user: null, isAuthenticated: false})
SignOutSet(c) ==
    LET call == storeCalls[c]
    IN /\ call.fn = "signOut" /\ call.pc = "set"
       /\ user' = NoUser
       /\ isAuthenticated' = FALSE
       /\ storeCalls' = [storeCalls EXCEPT ![c] = IdleStoreCall]
       /\ returned' = StoreReturn("signOut")
       /\ UNCHANGED <<now, online, isLoading, session, localVars, remoteVars, tasks,
                      link, countVars, ghostVars, dbVars>>

\* updatePremiumStatus: const state = get(); if (!state.user) return;
\* then the awaits of getDatabase, of UPDATE users SET is_premium = ? and of
\* the update of profiles (columns that the model's rows do not carry).
UpdatePremiumStatus(c) ==
    /\ StoreFree(c)
    /\ IF user = NoUser
       THEN /\ storeCalls' = storeCalls
            /\ returned' = StoreReturn("updatePremiumStatus")
       ELSE /\ storeCalls' = [storeCalls EXCEPT ![c] =
                                 [IdleStoreCall EXCEPT !.fn = "updatePremiumStatus",
                                                       !.pc = "set", !.state = user]]
            /\ returned' = NoReturn
    /\ UNCHANGED <<now, online, authVars, localVars, remoteVars, tasks, link, countVars,
                   ghostVars, dbVars>>

\* set({user: {...state.user, isPremium}}): the user that get() returned
\* when the call started; isAuthenticated is not written.
UpdatePremiumStatusSet(c) ==
    LET call == storeCalls[c]
    IN /\ call.fn = "updatePremiumStatus" /\ call.pc = "set"
       /\ user' = call.state
       /\ storeCalls' = [storeCalls EXCEPT ![c] = IdleStoreCall]
       /\ returned' = StoreReturn("updatePremiumStatus")
       /\ UNCHANGED <<now, online, isLoading, isAuthenticated, session, localVars,
                      remoteVars, tasks, link, countVars, ghostVars, dbVars>>

(***************************************************************************)
(* database.ts getDatabase and migrations.ts runMigrations, one action per *)
(* await. The store (user_version, schema) outlives the process; db, the   *)
(* calls in flight and the count of runMigrations calls do not.            *)
(***************************************************************************)
\* getDatabase returned db to its caller.
DatabaseReturn == [NoReturn EXCEPT !.kind = "database", !.fn = "getDatabase"]

\* ALTER TABLE ... ADD COLUMN on a column that exists rejects.
DatabaseError == [NoReturn EXCEPT !.kind = "error", !.fn = "duplicate column name"]

\* The await that follows the PRAGMA user_version query in a store read at
\* version v.
AfterVersion(v) ==
    IF v < 1 THEN "migration001"
    ELSE IF v < 2 THEN "migration002"
    ELSE "setVersion"

\* if (!db) { db = await SQLite.openDatabaseAsync('remindme.db'); ... }
\* return db;
GetDatabase(c) ==
    /\ dbCalls[c].pc = "idle"
    /\ c = "g2" => dbCalls["g1"].pc # "idle"
    /\ IF db # NoDb
       THEN /\ returned' = DatabaseReturn
            /\ dbCalls' = dbCalls
       ELSE /\ returned' = NoReturn
            /\ dbCalls' = [dbCalls EXCEPT ![c].pc = "open"]
    /\ UNCHANGED <<db, user_version, schema, migrations, storeCalls>>
    /\ UNCHANGED <<now, online, authVars, localVars, remoteVars, tasks, link, countVars,
                   ghostVars>>

\* openDatabaseAsync resolves: db is assigned, runMigrations(db) is called
\* and sends PRAGMA user_version.
OpenDatabase(c) ==
    /\ dbCalls[c].pc = "open"
    /\ db' = Handle
    /\ migrations' = [migrations EXCEPT !.started = @ + 1]
    /\ dbCalls' = [dbCalls EXCEPT ![c].pc = "pragma"]
    /\ returned' = NoReturn
    /\ UNCHANGED <<user_version, schema, storeCalls>>
    /\ UNCHANGED <<now, online, authVars, localVars, remoteVars, tasks, link, countVars,
                   ghostVars>>

\* const userVersion = result?.user_version ?? 0;
\* if (userVersion < 1) ...; if (userVersion < 2) ...
ReadUserVersion(c) ==
    /\ dbCalls[c].pc = "pragma"
    /\ dbCalls' = [dbCalls EXCEPT ![c].pc = AfterVersion(user_version),
                                  ![c].userVersion = user_version]
    /\ returned' = NoReturn
    /\ UNCHANGED <<db, user_version, schema, migrations, storeCalls>>
    /\ UNCHANGED <<now, online, authVars, localVars, remoteVars, tasks, link, countVars,
                   ghostVars>>

\* await migration001(db): CREATE TABLE / INDEX IF NOT EXISTS.
Migration001(c) ==
    /\ dbCalls[c].pc = "migration001"
    /\ schema' = schema \cup {Tables}
    /\ dbCalls' = [dbCalls EXCEPT ![c].pc = "migration002"]
    /\ returned' = NoReturn
    /\ UNCHANGED <<db, user_version, migrations, storeCalls>>
    /\ UNCHANGED <<now, online, authVars, localVars, remoteVars, tasks, link, countVars,
                   ghostVars>>

\* await migration002(db): execAsync runs the statements one after the other
\* outside a transaction. An ALTER TABLE of a column that exists rejects and
\* getDatabase rejects with it; db stays assigned.
Migration002(c) ==
    LET call == dbCalls[c]
        statement == Migration002Statements[call.stmt]
    IN /\ call.pc = "migration002"
       /\ IF call.stmt < 3 /\ statement \in schema
          THEN /\ dbCalls' = [dbCalls EXCEPT ![c] = IdleDbCall]
               /\ returned' = DatabaseError
               /\ schema' = schema
          ELSE /\ schema' = schema \cup {statement}
               /\ dbCalls' = [dbCalls EXCEPT ![c] =
                                 IF call.stmt = 3
                                 THEN [call EXCEPT !.pc = "setVersion"]
                                 ELSE [call EXCEPT !.stmt = @ + 1]]
               /\ returned' = NoReturn
       /\ UNCHANGED <<db, user_version, migrations, storeCalls>>
       /\ UNCHANGED <<now, online, authVars, localVars, remoteVars, tasks, link,
                      countVars, ghostVars>>

\* await db.execAsync(`PRAGMA user_version = ${CURRENT_VERSION}`);
\* runMigrations returns and getDatabase returns db.
SetUserVersion(c) ==
    /\ dbCalls[c].pc = "setVersion"
    /\ user_version' = CURRENT_VERSION
    /\ migrations' = [migrations EXCEPT !.completed = @ + 1]
    /\ dbCalls' = [dbCalls EXCEPT ![c] = IdleDbCall]
    /\ returned' = DatabaseReturn
    /\ UNCHANGED <<db, schema, storeCalls>>
    /\ UNCHANGED <<now, online, authVars, localVars, remoteVars, tasks, link, countVars,
                   ghostVars>>

\* The process is killed while the database is open or being opened.
KillDatabase ==
    /\ db # NoDb \/ \E c \in DbCallers : dbCalls[c].pc # "idle"
    /\ db' = NoDb
    /\ dbCalls' = [c \in DbCallers |-> IdleDbCall]
    /\ migrations' = [started |-> 0, completed |-> 0]
    /\ returned' = NoReturn
    /\ UNCHANGED <<user_version, schema, storeCalls>>
    /\ UNCHANGED <<now, online, authVars, localVars, remoteVars, tasks, link, countVars,
                   ghostVars>>

(***************************************************************************)
(* The specifications.                                                     *)
(***************************************************************************)
EnvNext ==
    \/ Tick
    \/ NetChange

HookNext ==
    \/ \E t \in Tasks, title \in NewTitles : CreateReminder(t, title)
    \/ \E t \in Tasks, id \in ReminderIds, title \in EditTitles : UpdateReminder(t, id, title)
    \/ \E t \in Tasks, id \in ReminderIds : CompleteReminder(t, id)
    \/ \E t \in Tasks, id \in ReminderIds : DeleteReminder(t, id)
    \/ \E t \in Tasks : SyncReminderToCloud(t)

DrainNext ==
    \/ \E t \in Tasks : ProcessSyncQueueBegin(t)
    \/ \E t \in Tasks, ok \in BOOLEAN : ProcessItem(t, ok)

TransferNext ==
    \/ \E t \in Tasks, okR \in SUBSET ReminderIds, okC \in SUBSET CategoryIds,
          okP \in SUBSET PlaceIds : PushToCloud(t, okR, okC, okP)
    \/ \E t \in Tasks, okR \in BOOLEAN, okC \in BOOLEAN, okP \in BOOLEAN :
          PullFromCloud(t, okR, okC, okP)
    \/ \E t \in Tasks : FullSyncBegin(t)

CallNext ==
    \/ \E t \in Tasks : CallProcessSyncQueue(t)
    \/ \E t \in Tasks : CallPushToCloud(t)
    \/ \E t \in Tasks : CallPullFromCloud(t)
    \/ \E t \in Tasks : CallFullSync(t)

KillNext ==
    \/ Restart
    \/ \E t \in Tasks : ProcessItemKilled(t)

LinkNext ==
    \/ \E id \in CategoryIds : CreateCategory(id)
    \/ \E id \in PlaceIds : CreateSavedPlace(id)
    \/ LinkStart
    \/ \E ok \in BOOLEAN : LinkSignUp(ok)
    \/ LinkReassignReminders
    \/ LinkReassignQueue
    \/ LinkDeleteGuest
    \/ LinkInsertUser
    \/ LinkStorageError

\* A registered account: the mutation hooks with the drains they start,
\* direct calls of processSyncQueue, kills.
DrainFlowNext ==
    \/ EnvNext
    \/ HookNext
    \/ DrainNext
    \/ \E t \in Tasks : CallProcessSyncQueue(t)
    \/ KillNext

SpecDrain == InitAccount /\ [][DrainFlowNext]_vars

\* One device under the identity it started with (a guest or an account):
\* the mutation hooks, the sync engine, direct sync calls, kills.
Next == EnvNext \/ HookNext \/ DrainNext \/ TransferNext \/ CallNext \/ KillNext

Spec == Init /\ [][Next]_vars

\* A guest who writes locally and links to an account; the account then
\* goes on through the hooks.
LinkFlowNext == EnvNext \/ HookNext \/ DrainNext \/ LinkNext \/ Restart

SpecLink == InitGuest /\ [][LinkFlowNext]_vars

\* The inputs of the remote operations: one entry in sync_queue of any entity
\* type and operation, with any payload, and remote tables that hold a row of
\* its entity or not.
ReplayPayloads ==
    [ title : NewTitles \cup EditTitles, isCompleted : BOOLEAN, isActive : BOOLEAN,
      completedAt : {NULL, 1}, isDeleted : BOOLEAN ]

ReplayRemoteRows ==
    [ user_id : {AccountId}, title : NewTitles \cup EditTitles, is_completed : BOOLEAN,
      is_active : {TRUE}, completed_at : {NULL}, is_deleted : BOOLEAN ]

InitReplay ==
    /\ now = 1
    /\ online \in BOOLEAN
    /\ isLoading = FALSE
    /\ InitProcess
    /\ user = AccountUser
    /\ isAuthenticated = TRUE
    /\ users = [x \in {AccountId} |-> [is_guest |-> 0, email |-> 1]]
    /\ session = AccountId
    /\ reminders = EmptyTable
    /\ categories = EmptyTable
    /\ saved_places = EmptyTable
    /\ \E entityType \in {"reminder", "category", "saved_place"},
          operation \in {"create", "update", "delete"} :
          \E data \in IF entityType = "reminder"
                       THEN IF operation = "delete" THEN {DeleteSnapshot} ELSE ReplayPayloads
                       ELSE {NoData} :
             LET entityId == CASE entityType = "reminder" -> "r1"
                               [] entityType = "category" -> "c1"
                               [] OTHER -> "p1"
             IN sync_queue = addToSyncQueue(<<>>, entityType, entityId, operation, data,
                                            AccountId, 1, 1)
    /\ remote \in {EmptyTable} \cup {[x \in {"r1"} |-> row] : row \in ReplayRemoteRows}
    /\ remoteCats \in {EmptyTable, [x \in {"c1"} |-> [user_id |-> AccountId]]}
    /\ remotePlaces \in {EmptyTable, [x \in {"p1"} |-> [user_id |-> AccountId]]}
    /\ tasks = [t \in Tasks |-> IdleTask]
    /\ returned = NoReturn
    /\ link = IdleLink
    /\ ops = 0
    /\ syncCalls = 0
    /\ enqueued = 1
    /\ lastEnqueued = [id \in ReminderIds |-> NoData]
    /\ remoteCallers = {}

\* A drain of that entry, a kill between its remote call and the DELETE of
\* its row, and the drain after the restart.
ReplayNext ==
    \/ NetChange
    \/ \E t \in Tasks : CallProcessSyncQueue(t)
    \/ DrainNext
    \/ \E t \in Tasks : ProcessItemKilled(t)

SpecReplay == InitReplay /\ [][ReplayNext]_vars

\* A device on which another account has worked before: its reminder, category
\* and saved place are still in the local tables (signOut deletes the users
\* row only), an entry of it may still be queued, and sync_queue may hold an
\* entry from before migration002, whose user_id is NULL. The other account's
\* rows may be in the remote store.
OtherReminder ==
    [ user_id |-> OtherAccountId, title |-> "b", is_completed |-> 0, is_active |-> 1,
      completed_at |-> NULL, is_deleted |-> 0, notification_id |-> NULL ]

OtherEntry ==
    [ id |-> QueueEntryId("reminder", "r2", 0), entity_type |-> "reminder",
      entity_id |-> "r2", operation |-> "update",
      payload |-> SnapshotOf(mapReminderFromDb(OtherReminder)), created_at |-> 0,
      attempts |-> 0, last_attempt_at |-> NULL, user_id |-> OtherAccountId, seq |-> 0 ]

LegacyEntry ==
    [ id |-> QueueEntryId("reminder", "r3", 0), entity_type |-> "reminder",
      entity_id |-> "r3", operation |-> "create",
      payload |-> SnapshotOf(mapReminderFromDb(OtherReminder)), created_at |-> 0,
      attempts |-> 0, last_attempt_at |-> NULL, user_id |-> NoId, seq |-> 0 ]

InitOwners ==
    /\ now = 1
    /\ online \in BOOLEAN
    /\ isLoading = FALSE
    /\ InitProcess
    /\ user = AccountUser
    /\ isAuthenticated = TRUE
    /\ users = [x \in {AccountId} |-> [is_guest |-> 0, email |-> 1]]
    /\ session = AccountId
    /\ reminders = [x \in {"r2"} |-> OtherReminder]
    /\ categories = [x \in {"c2"} |-> [user_id |-> OtherAccountId]]
    /\ saved_places = [x \in {"p2"} |-> [user_id |-> OtherAccountId]]
    /\ sync_queue \in {<<OtherEntry>>, <<LegacyEntry>>, <<OtherEntry, LegacyEntry>>,
                       <<LegacyEntry, OtherEntry>>}
    /\ remote \in {EmptyTable, [x \in {"r2"} |-> PushRow(OtherReminder, OtherAccountId)]}
    /\ remoteCats \in {EmptyTable, [x \in {"c2"} |-> [user_id |-> OtherAccountId]]}
    /\ remotePlaces = remoteCats
    /\ tasks = [t \in Tasks |-> IdleTask]
    /\ returned = NoReturn
    /\ link = IdleLink
    /\ ops = 0
    /\ syncCalls = 0
    /\ enqueued = 0
    /\ lastEnqueued = [id \in ReminderIds |-> NoData]
    /\ remoteCallers = {}

OwnersNext ==
    \/ NetChange
    \/ \E t \in Tasks, title \in NewTitles : CreateReminder(t, title)
    \/ \E t \in Tasks : SyncReminderToCloud(t)
    \/ DrainNext
    \/ TransferNext
    \/ CallNext

SpecOwners == InitOwners /\ [][OwnersNext]_vars

\* A registered account that creates, edits and deletes reminders, the edit
\* taken await by await. It starts with no reminder, or with one that was
\* created and synced, or with one that was also deleted and synced.
StoredReminder ==
    [ user_id |-> AccountId, title |-> "a", is_completed |-> 0, is_active |-> 1,
      completed_at |-> NULL, is_deleted |-> 0, notification_id |-> ScheduledId ]

InitUpdate ==
    /\ now = 1
    /\ online \in BOOLEAN
    /\ isLoading = FALSE
    /\ InitProcess
    /\ user = AccountUser
    /\ isAuthenticated = TRUE
    /\ users = [x \in {AccountId} |-> [is_guest |-> 0, email |-> 1]]
    /\ session = AccountId
    /\ reminders \in {EmptyTable, [x \in {"r1"} |-> StoredReminder],
                      [x \in {"r1"} |-> [StoredReminder EXCEPT !.is_deleted = 1]]}
    /\ categories = EmptyTable
    /\ saved_places = EmptyTable
    /\ sync_queue = <<>>
    /\ LET created == syncReminder(EmptyTable, AccountId, "r1", "create",
                                   SnapshotOf(mapReminderFromDb(StoredReminder)))
       IN remote = IF reminders = EmptyTable THEN EmptyTable
                   ELSE IF reminders["r1"].is_deleted = 0 THEN created
                   ELSE syncReminder(created, AccountId, "r1", "delete", DeleteSnapshot)
    /\ remoteCats = EmptyTable
    /\ remotePlaces = EmptyTable
    /\ tasks = [t \in Tasks |-> IdleTask]
    /\ returned = NoReturn
    /\ link = IdleLink
    /\ ops = 0
    /\ syncCalls = 0
    /\ enqueued = IF reminders = EmptyTable THEN 0
                  ELSE IF reminders["r1"].is_deleted = 0 THEN 1 ELSE 2
    /\ lastEnqueued = [id \in ReminderIds |->
                          IF reminders = EmptyTable THEN NoData
                          ELSE IF reminders["r1"].is_deleted = 0
                               THEN SnapshotOf(mapReminderFromDb(StoredReminder))
                               ELSE DeleteSnapshot]
    /\ remoteCallers = IF reminders = EmptyTable THEN {} ELSE {AccountId}

UpdateFlowNext ==
    \/ Tick
    \/ \E t \in Tasks, title \in NewTitles : CreateReminder(t, title)
    \/ \E t \in Tasks, id \in ReminderIds : DeleteReminder(t, id)
    \/ \E t \in Tasks, id \in ReminderIds, title \in EditTitles : UpdateGetById(t, id, title)
    \/ \E t \in Tasks : UpdateRunAsync(t)
    \/ \E t \in Tasks : UpdateReturn(t)
    \/ \E t \in Tasks : SyncReminderToCloud(t)
    \/ DrainNext

SpecUpdate == InitUpdate /\ [][UpdateFlowNext]_vars

\* A process that starts on a store at any version, among them a store from
\* before migration002 and one written by a later build: the callers of
\* getDatabase and the kills.
InitDatabase ==
    /\ now = 1
    /\ online = TRUE
    /\ user = NoUser
    /\ isLoading = TRUE
    /\ isAuthenticated = FALSE
    /\ session = NoId
    /\ users = EmptyTable
    /\ reminders = EmptyTable
    /\ categories = EmptyTable
    /\ saved_places = EmptyTable
    /\ sync_queue = <<>>
    /\ remote = EmptyTable
    /\ remoteCats = EmptyTable
    /\ remotePlaces = EmptyTable
    /\ tasks = [t \in Tasks |-> IdleTask]
    /\ returned = NoReturn
    /\ link = IdleLink
    /\ ops = 0
    /\ syncCalls = 0
    /\ enqueued = 0
    /\ lastEnqueued = [id \in ReminderIds |-> NoData]
    /\ remoteCallers = {}
    /\ storeCalls = [c \in StoreCallers |-> IdleStoreCall]
    /\ db = NoDb
    /\ user_version \in 0..MaxVersion
    /\ schema = SchemaAt(user_version)
    /\ dbCalls = [c \in DbCallers |-> IdleDbCall]
    /\ migrations = [started |-> 0, completed |-> 0]

DatabaseNext ==
    \/ \E c \in DbCallers : GetDatabase(c)
    \/ \E c \in DbCallers : OpenDatabase(c)
    \/ \E c \in DbCallers : ReadUserVersion(c)
    \/ \E c \in DbCallers : Migration001(c)
    \/ \E c \in DbCallers : Migration002(c)
    \/ \E c \in DbCallers : SetUserVersion(c)
    \/ KillDatabase

SpecDatabase == InitDatabase /\ [][DatabaseNext]_vars

\* The auth store after initialize found no user, a guest or an account, and
\* the calls of continueAsGuest, signOut and updatePremiumStatus.
InitFresh ==
    /\ InitCommon
    /\ user = NoUser
    /\ isAuthenticated = FALSE
    /\ users = EmptyTable
    /\ session = NoId

AuthNext ==
    \/ \E c \in StoreCallers : ContinueAsGuest(c)
    \/ \E c \in StoreCallers : ContinueAsGuestInsert(c)
    \/ \E c \in StoreCallers : ContinueAsGuestSet(c)
    \/ \E c \in StoreCallers : SignOut(c)
    \/ \E c \in StoreCallers : SignOutSession(c)
    \/ \E c \in StoreCallers : SignOutDelete(c)
    \/ \E c \in StoreCallers : SignOutSet(c)
    \/ \E c \in StoreCallers : UpdatePremiumStatus(c)
    \/ \E c \in StoreCallers : UpdatePremiumStatusSet(c)

InitAuth == InitFresh \/ InitGuest \/ InitAccount

SpecAuth == InitAuth /\ [][AuthNext]_vars

\* A registered account whose queue is drained and purged by hand.
PurgeFlowNext ==
    \/ DrainFlowNext
    \/ ClearFailedSyncItems

SpecPurge == InitAccount /\ [][PurgeFlowNext]_vars

\* An account that holds reminders, categories and saved places and calls
\* pushToCloud.
PushFlowNext ==
    \/ NetChange
    \/ HookNext
    \/ DrainNext
    \/ \E id \in CategoryIds : CreateCategory(id)
    \/ \E id \in PlaceIds : CreateSavedPlace(id)
    \/ \E t \in Tasks : CallPushToCloud(t)
    \/ \E t \in Tasks, okR \in SUBSET ReminderIds, okC \in SUBSET CategoryIds,
          okP \in SUBSET PlaceIds : PushToCloud(t, okR, okC, okP)

SpecPush == InitAccount /\ [][PushFlowNext]_vars

\* Two devices of one account: this one with its hooks and fullSync, and a
\* second one whose synced deletes arrive in the remote store.
DevicesNext ==
    \/ NetChange
    \/ HookNext
    \/ DrainNext
    \/ TransferNext
    \/ \E t \in Tasks : CallFullSync(t)
    \/ \E id \in ReminderIds : OtherDeviceDelete(id)

SpecDevices == InitAccount /\ [][DevicesNext]_vars

\* A registered account whose remote store accepts every call: the hooks and
\* the drains they start. Every call in flight goes on (an awaited promise
\* settles); the user's mutations and the network are under no obligation.
ReconnectNext ==
    \/ EnvNext
    \/ HookNext
    \/ \E t \in Tasks : ProcessSyncQueueBegin(t)
    \/ \E t \in Tasks : ProcessItem(t, TRUE)

ReconnectFairness ==
    /\ WF_vars(\E t \in Tasks : SyncReminderToCloud(t))
    /\ WF_vars(\E t \in Tasks : ProcessSyncQueueBegin(t))
    /\ WF_vars(\E t \in Tasks : ProcessItem(t, TRUE))

SpecReconnect == InitAccount /\ [][ReconnectNext]_vars /\ ReconnectFairness

\* Every producer of local changes: the hooks with their drains, the
\* notification action and the geofence task.
ProducersNext ==
    \/ EnvNext
    \/ HookNext
    \/ DrainNext
    \/ \E id \in ReminderIds : HandleComplete(id)
    \/ \E id \in ReminderIds : HandleGeofenceEvent(id)

SpecProducers == Init /\ [][ProducersNext]_vars

\* A registered account or a guest: the hooks, the drains, direct calls of
\* processSyncQueue, and every failure of the sync path (remote errors,
\* exceptions of local statements and of the connectivity test).
FailureNext ==
    \/ EnvNext
    \/ HookNext
    \/ DrainNext
    \/ \E t \in Tasks : CallProcessSyncQueue(t)
    \/ \E t \in Tasks, inserted \in BOOLEAN : SyncReminderToCloudThrows(t, inserted)
    \/ \E t \in Tasks : ProcessSyncQueueThrows(t)
    \/ \E t \in Tasks, ok \in BOOLEAN : ProcessItemThrows(t, ok)
    \/ \E t \in Tasks : ProcessItemDeleteFails(t)

SpecFailure == Init /\ [][FailureNext]_vars

(***************************************************************************)
(* What the claims are stated with.                                        *)
(***************************************************************************)
\* The primary keys of the rows of sync_queue.
QueueIds(q) == {q[i].id : i \in 1..Len(q)}

\* The row of sync_queue with primary key id.
EntryOf(q, id) == q[CHOOSE i \in 1..Len(q) : q[i].id = id]

\* This step is one turn of the loop of the drain of slot t: the remote call
\* of the head of its items has answered and the queue row was written.
ItemStep(t) ==
    /\ tasks[t].pc = "drain"
    /\ tasks'[t] # tasks[t]
    /\ tasks'[t].pc = "drain" \/ returned' # NoReturn

\* The counters of the drain of slot t after an ItemStep.
SuccessAfter(t) == IF tasks'[t].pc = "drain" THEN tasks'[t].success ELSE returned'.success

FailedAfter(t) == IF tasks'[t].pc = "drain" THEN tasks'[t].failed ELSE returned'.failed

ItemSucceeded(t) == ItemStep(t) /\ SuccessAfter(t) = tasks[t].success + 1

ItemFailed(t) == ItemStep(t) /\ FailedAfter(t) = tasks[t].failed + 1

\* Some row of reminders or sync_queue is owned by u.
OwnsRows(u) ==
    \/ \E id \in DOMAIN reminders : reminders[id].user_id = u
    \/ \E i \in 1..Len(sync_queue) : sync_queue[i].user_id = u

(***************************************************************************)
(* C1.                                                                     *)
(***************************************************************************)
\* C1: guest isolation. Whatever a guest does (create, update, complete,
\* delete, and direct calls of processSyncQueue, pushToCloud, pullFromCloud,
\* fullSync), no row of sync_queue is owned by the guest, no remote call is
\* issued in the guest's name, no remote row carries the guest's id, no
\* drain of a guest gets past its gate, addToSyncQueue with the guest id
\* returns the queue as it is, and every call of the guest returns zeros.
C1_GuestIsolation ==
    /\ \A i \in 1..Len(sync_queue) : sync_queue[i].user_id # GuestId
    /\ GuestId \notin remoteCallers
    /\ \A id \in DOMAIN remote : remote[id].user_id # GuestId
    /\ \A id \in DOMAIN remoteCats : remoteCats[id].user_id # GuestId
    /\ \A id \in DOMAIN remotePlaces : remotePlaces[id].user_id # GuestId
    /\ \A t \in Tasks :
          tasks[t].userId = GuestId =>
              /\ tasks[t].pc # "drain"
              /\ tasks[t].kind = "fullSync" => tasks[t].pc = "full"
    /\ addToSyncQueue(sync_queue, "reminder", "r1", "update", NoData, GuestId, now,
                      enqueued + 1) = sync_queue
    /\ returned.userId = GuestId =>
          returned.success = 0 /\ returned.failed = 0 /\ returned.count = 0

\* A guest who holds reminders has called pushToCloud while connected, and
\* the call has returned.
C1_Witness ==
    /\ user = GuestUser
    /\ online
    /\ returned.userId = GuestId
    /\ returned.fn = "pushToCloud"
    /\ LocalRemindersOf(GuestId) # {}

(***************************************************************************)
(* C2.                                                                     *)
(***************************************************************************)
\* The payload inserted last for reminder id is the state of its local row.
LastEnqueuedIsLocal(id) ==
    IF reminders[id].is_deleted = 1
    THEN lastEnqueued[id] = DeleteSnapshot
    ELSE lastEnqueued[id] = SnapshotOf(mapReminderFromDb(reminders[id]))

\* The remote row of reminder id holds the local row's state: the tombstone
\* flag for a deleted reminder, every synced field otherwise.
RemoteHoldsLocal(id) ==
    /\ id \in DOMAIN remote
    /\ IF reminders[id].is_deleted = 1
       THEN remote[id].is_deleted = TRUE
       ELSE remote[id] = PushRow(reminders[id], reminders[id].user_id)

\* C2: final remote state. When every mutation of a registered owner was
\* enqueued, the snapshot enqueued last for reminder id is its local state,
\* no call is in flight and no entry of id is left in the queue (each was
\* removed by a drain that applied it), the remote row of id holds that
\* state.
C2_FinalRemoteState ==
    \A id \in DOMAIN reminders :
        ( /\ reminders[id].user_id = AccountId
          /\ enqueued > 0
          /\ ops = enqueued
          /\ LastEnqueuedIsLocal(id)
          /\ \A t \in Tasks : tasks[t].pc = "idle"
          /\ \A i \in 1..Len(sync_queue) : sync_queue[i].entity_id # id )
        => RemoteHoldsLocal(id)

(***************************************************************************)
(* C3.                                                                     *)
(***************************************************************************)
\* C3: a row leaves sync_queue only in a step in which a drain's remote
\* call for the entry of that key answered without error (after a create the
\* remote table holds the reminder under the drainer's id with is_deleted
\* false); a row changes only by attempts + 1 and last_attempt_at = now, in a
\* step in which a drain's remote call for it failed, and the remote tables
\* are then unchanged; every turn of the loop is one success or one failure;
\* a success removes the row and a failure keeps a row that was there with
\* attempts + 1; a drain whose only item succeeds returns {1, 0}.
C3_Step ==
    /\ \A id \in QueueIds(sync_queue) :
          LET e == EntryOf(sync_queue, id)
          IN IF id \notin QueueIds(sync_queue')
             THEN \E t \in Tasks :
                     /\ ItemSucceeded(t)
                     /\ Head(tasks[t].items).id = id
                     /\ ( /\ Head(tasks[t].items).entity_type = "reminder"
                          /\ Head(tasks[t].items).operation = "create" )
                        => /\ e.entity_id \in DOMAIN remote'
                           /\ remote'[e.entity_id].user_id = tasks[t].userId
                           /\ remote'[e.entity_id].is_deleted = FALSE
             ELSE \/ EntryOf(sync_queue', id) = e
                  \/ /\ EntryOf(sync_queue', id) =
                           [e EXCEPT !.attempts = @ + 1, !.last_attempt_at = now]
                     /\ now # NULL
                     /\ \E t \in Tasks : ItemFailed(t) /\ Head(tasks[t].items).id = id
                     /\ UNCHANGED remoteVars
    /\ \A t \in Tasks :
          ItemStep(t) =>
              LET id == Head(tasks[t].items).id
              IN /\ ItemSucceeded(t) # ItemFailed(t)
                 /\ ItemSucceeded(t) => id \notin QueueIds(sync_queue')
                 /\ (ItemFailed(t) /\ id \in QueueIds(sync_queue)) =>
                        /\ id \in QueueIds(sync_queue')
                        /\ EntryOf(sync_queue', id).attempts =
                              EntryOf(sync_queue, id).attempts + 1
                 /\ ( /\ ItemSucceeded(t)
                      /\ Len(tasks[t].items) = 1
                      /\ tasks[t].success = 0 /\ tasks[t].failed = 0 )
                    => /\ returned'.fn = "processSyncQueue"
                       /\ returned'.success = 1
                       /\ returned'.failed = 0

C4_AttemptsBound ==
    \A i \in 1..Len(sync_queue) : sync_queue[i].attempts <= MAX_ATTEMPTS

(***************************************************************************)
(* C5.                                                                     *)
(***************************************************************************)
\* C5: per-owner drain order. When a drain issues the remote call of an
\* entry, no entry of the same owner that was enqueued after it has already
\* been applied: every later entry is still in the queue.
C5_Step ==
    \A t \in Tasks :
        ItemStep(t) =>
            LET e == Head(tasks[t].items)
            IN \A n \in (e.seq + 1)..enqueued :
                  \E i \in 1..Len(sync_queue) : sync_queue[i].seq = n

C5_DrainOrder == [][C5_Step]_vars

(***************************************************************************)
(* C6.                                                                     *)
(***************************************************************************)
\* C6: a migration that succeeded is complete. When linkGuestToAccount has
\* returned, no row of reminders, categories, saved_places or sync_queue is
\* owned by the guest id, the guest row is gone from users, users holds a
\* non-guest row of the account, and the active identity is the account.
C6_MigrationComplete ==
    link.pc = "done" =>
        /\ \A id \in DOMAIN reminders : reminders[id].user_id # link.guestId
        /\ \A id \in DOMAIN categories : categories[id].user_id # link.guestId
        /\ \A id \in DOMAIN saved_places : saved_places[id].user_id # link.guestId
        /\ \A i \in 1..Len(sync_queue) : sync_queue[i].user_id # link.guestId
        /\ link.guestId \notin DOMAIN users
        /\ AccountId \in DOMAIN users
        /\ users[AccountId].is_guest = 0
        /\ user = AccountUser

(***************************************************************************)
(* C7.                                                                     *)
(***************************************************************************)
\* C7: the migration is atomic. While the local steps of linkGuestToAccount
\* run, and after the call has returned or thrown, every state a read can
\* observe, and every state a storage error leaves, is the state before the
\* migration (the guest row exists, the account row does not, no row is
\* owned by the account) or the state after it (the account row exists, the
\* guest row does not, no row is owned by the guest).
C7_MigrationAtomic ==
    link.pc \in {"queue", "deleteGuest", "insertUser", "failed", "done"} =>
        \/ /\ GuestId \in DOMAIN users
           /\ AccountId \notin DOMAIN users
           /\ ~OwnsRows(AccountId)
        \/ /\ GuestId \notin DOMAIN users
           /\ AccountId \in DOMAIN users
           /\ ~OwnsRows(GuestId)

(***************************************************************************)
(* C8.                                                                     *)
(***************************************************************************)
\* C8: when signUp fails inside linkGuestToAccount, the step changes no row
\* of any local table and nothing remote, the active identity is still the
\* guest the call started with, isLoading is false again and the error is
\* thrown to the caller; a call under an identity that is not a guest is
\* rejected and changes nothing.
C8_Step ==
    /\ (link.pc = "signUp" /\ link'.pc = "failed") =>
          /\ link'.error = "signUp"
          /\ UNCHANGED <<users, reminders, categories, saved_places, sync_queue>>
          /\ UNCHANGED remoteVars
          /\ UNCHANGED <<user, session>>
          /\ user'.isGuest /\ user'.id = link.guestId
          /\ isLoading' = FALSE
          /\ \A id \in DOMAIN reminders' :
                reminders[id].user_id = link.guestId =>
                    reminders'[id].user_id = link.guestId
    /\ (link.pc # "rejected" /\ link'.pc = "rejected") =>
          /\ ~user.isGuest
          /\ link'.error = "notGuest"
          /\ UNCHANGED <<authVars, localVars, remoteVars>>

C8_SignUpFailureChangesNothing == [][C8_Step]_vars

\* signUp has failed for a guest who holds a reminder: the call has thrown,
\* the guest is still the active identity and still owns the reminder.
C8_Witness ==
    /\ link.pc = "failed"
    /\ link.error = "signUp"
    /\ user = GuestUser
    /\ GuestId \in DOMAIN users
    /\ \E id \in DOMAIN reminders : reminders[id].user_id = GuestId

(***************************************************************************)
(* C9.                                                                     *)
(***************************************************************************)
\* C9: soft delete is terminal. A reminder whose row has is_deleted = 1
\* keeps its row with is_deleted = 1 in every later state, so no default read
\* (getAll, getActive, getById) returns it again.
C9_Step ==
    \A id \in DOMAIN reminders :
        reminders[id].is_deleted = 1 =>
            /\ id \in DOMAIN reminders'
            /\ reminders'[id].is_deleted = 1
            /\ id \notin getAll(reminders', reminders'[id].user_id)
            /\ id \notin getActive(reminders', reminders'[id].user_id)
            /\ ~getByIdFound(reminders', id)

C9_SoftDeleteTerminal == [][C9_Step]_vars

(***************************************************************************)
(* C10.                                                                    *)
(***************************************************************************)
\* The columns of a local row that the sync carries (notification_id is local
\* only).
SyncedColumns(row) == [row EXCEPT !.notification_id = NULL]

\* C10: push-before-pull protects local edits. When the pull stage of a
\* fullSync runs and the local table reminders is as it was when the fullSync
\* was called, the pull leaves every reminder of the owner that was there
\* then as it was.
C10_Step ==
    \A t \in Tasks :
        ( /\ tasks[t].kind = "fullSync"
          /\ tasks[t].pc = "pull"
          /\ tasks'[t].pc = "idle"
          /\ returned'.fn = "pullFromCloud"
          /\ reminders = tasks[t].base )
        => \A id \in DOMAIN tasks[t].base :
              tasks[t].base[id].user_id = tasks[t].userId =>
                  SyncedColumns(reminders'[id]) = SyncedColumns(tasks[t].base[id])

C10_PushBeforePull == [][C10_Step]_vars

(***************************************************************************)
(* C11.                                                                    *)
(***************************************************************************)
\* The step moves the call of slot t on, and is not a kill of the process.
TaskStep(t) ==
    /\ tasks'[t] # tasks[t]
    /\ ~(tasks'[t] = IdleTask /\ returned' = NoReturn)

\* What a stage finds at its entry for the owner of slot t: a guest, or no
\* connection.
Skips(t) == isGuestUser(tasks[t].userId) \/ ~online

\* C11: fullSync runs its stages in the order drain, pushToCloud,
\* pullFromCloud. Its own gate returns at once for a guest or without a
\* connection and goes on to the drain otherwise; the drain's steps write the
\* remote tables by the head item alone and no local record; whatever the
\* drain's failures, pushToCloud is next and starts when the drain has
\* returned; the push writes no local table; pullFromCloud starts when the
\* push has returned, whatever it counted, writes nothing remote, and fullSync
\* ends with it; a stage that is not skipped (no guest, connected at its
\* entry) does its work.
C11_Step ==
    \A t \in Tasks :
        (tasks[t].kind = "fullSync" /\ TaskStep(t)) =>
            LET pc == tasks[t].pc
                pc2 == tasks'[t].pc
                u == tasks[t].userId
            IN /\ pc \in {"full", "queue", "drain", "push", "pull"}
               /\ pc = "full" =>
                     /\ UNCHANGED <<localVars, remoteVars, remoteCallers>>
                     /\ IF Skips(t)
                        THEN pc2 = "idle" /\ returned'.fn = "fullSync"
                        ELSE pc2 = "queue"
               /\ pc = "queue" =>
                     /\ UNCHANGED <<localVars, remoteVars, remoteCallers>>
                     /\ pc2 \in {"drain", "push"}
                     /\ pc2 = "push" => returned'.fn = "processSyncQueue"
                     /\ (~Skips(t) /\ Len(PendingItems(sync_queue, u)) > 0) => pc2 = "drain"
               /\ pc = "drain" =>
                     /\ UNCHANGED <<users, reminders, categories, saved_places>>
                     /\ \/ UNCHANGED remoteVars
                        \/ LET after == RemoteAfterItem(Head(tasks[t].items), u)
                           IN /\ remote' = after.reminders
                              /\ remoteCats' = after.categories
                              /\ remotePlaces' = after.saved_places
                     /\ IF Len(tasks[t].items) = 1
                        THEN pc2 = "push" /\ returned'.fn = "processSyncQueue"
                        ELSE pc2 = "drain"
               /\ pc = "push" =>
                     /\ UNCHANGED localVars
                     /\ pc2 = "pull"
                     /\ returned'.fn = "pushToCloud"
                     /\ (~Skips(t) /\ LocalRemindersOf(u) # {}) => u \in remoteCallers'
               /\ pc = "pull" =>
                     /\ UNCHANGED <<remoteVars, sync_queue, users>>
                     /\ pc2 = "idle"
                     /\ returned'.fn = "pullFromCloud"
                     /\ ~Skips(t) => u \in remoteCallers'
               /\ pc2 # "idle" => tasks'[t].kind = "fullSync"

C12_Step ==
    \A t \in Tasks :
        (tasks[t].kind = "fullSync" /\ TaskStep(t)) =>
            \A id \in DOMAIN remote :
                (remote[id].user_id = tasks[t].userId /\ remote[id].is_deleted = TRUE) =>
                    /\ tasks[t].pc = "push" => remote'[id].is_deleted = TRUE
                    /\ (tasks[t].pc = "pull" /\ ~Skips(t)) =>
                          /\ id \notin getAll(reminders', tasks[t].userId)
                          /\ ~getByIdFound(reminders', id)

C12_DeletesPropagate == [][C12_Step]_vars

(***************************************************************************)
(* C13.                                                                    *)
(***************************************************************************)
\* A step of a call in flight.
ProgramStep ==
    \E t \in Tasks :
        \/ SyncReminderToCloud(t)
        \/ ProcessSyncQueueBegin(t)
        \/ ProcessItem(t, TRUE)

\* C13: offline entries are kept and eventually delivered. An entry that no
\* drain has tried has attempts 0 and is counted by getPendingSyncCount; and
\* while the device is connected and an entry is pending, the program is not
\* at rest: some call in flight has a step to take towards the drain of the
\* queue, so that the entry is delivered without a further mutation of the
\* user.
C13_OfflineEntryDelivered ==
    /\ \A i \in 1..Len(sync_queue) :
          sync_queue[i].last_attempt_at = NULL =>
              /\ sync_queue[i].attempts = 0
              /\ getPendingSyncCount(sync_queue) >= 1
    /\ (online /\ getPendingSyncCount(sync_queue) >= 1) => ENABLED ProgramStep

(***************************************************************************)
(* C14.                                                                    *)
(***************************************************************************)
\* The payload that carries the state of a local row.
StateSnapshot(row) ==
    IF row.is_deleted = 1 THEN DeleteSnapshot ELSE SnapshotOf(mapReminderFromDb(row))

\* C14: every authenticated mutation syncs. A step that changes the synced
\* columns of a local reminder (or inserts it) while the active identity is
\* registered hands the resulting state to syncReminderToCloud in the owner's
\* name, which enqueues it; under a guest identity the step leaves sync_queue
\* as it is and starts no sync in a registered owner's name.
C14_Step ==
    \A id \in DOMAIN reminders' :
        (id \notin DOMAIN reminders
            \/ SyncedColumns(reminders'[id]) # SyncedColumns(reminders[id])) =>
            IF user.isGuest
            THEN /\ sync_queue' = sync_queue
                 /\ \A t \in Tasks :
                       tasks'[t].pc = "sync" => isGuestUser(tasks'[t].userId)
            ELSE \E t \in Tasks :
                    /\ tasks'[t].pc = "sync"
                    /\ tasks'[t].rid = id
                    /\ tasks'[t].userId = user.id
                    /\ ~isGuestUser(tasks'[t].userId)
                    /\ tasks'[t].data = StateSnapshot(reminders'[id])

C14_EveryMutationSyncs == [][C14_Step]_vars

(***************************************************************************)
(* C15.                                                                    *)
(***************************************************************************)
\* C15: sync failures never fail a mutation. Every step that the sync path
\* of a mutation hook takes after the local write leaves the local records
\* as they are; whatever fails on the way (the enqueue, the connectivity
\* test, a remote call, a local statement of the drain), the hook ends by
\* returning, never by an error; and a remote error in its drain shows as
\* attempts + 1 (with last_attempt_at) on the entry's row and nowhere else.
C15_Step ==
    \A t \in Tasks :
        (tasks[t].kind = "mutation" /\ TaskStep(t)) =>
            /\ UNCHANGED <<users, reminders, categories, saved_places>>
            /\ tasks'[t].pc = "idle" =>
                  /\ returned'.kind = "mutation"
                  /\ returned'.fn \in {"syncReminderToCloud", "processSyncQueue"}
            /\ (ItemFailed(t) /\ UNCHANGED remoteVars) =>
                  sync_queue' = QueueRecordFailure(sync_queue, Head(tasks[t].items).id, now)

C15_SyncFailuresAbsorbed == [][C15_Step]_vars

\* A hook has returned from a drain in which the remote call of its entry
\* failed: the local row is in place and the entry has one attempt.
C15_Witness ==
    /\ returned.kind = "mutation"
    /\ returned.fn = "processSyncQueue"
    /\ returned.failed = 1 /\ returned.success = 0
    /\ Len(sync_queue) = 1
    /\ sync_queue[1].attempts = 1
    /\ sync_queue[1].entity_id \in DOMAIN reminders
    /\ remote = EmptyTable

(***************************************************************************)
(* C16.                                                                    *)
(***************************************************************************)
\* The function whose entry a call stands at.
EntryOfCall(pc) ==
    CASE pc = "full" -> "fullSync"
      [] pc = "queue" -> "processSyncQueue"
      [] pc = "push" -> "pushToCloud"
      [] pc = "pull" -> "pullFromCloud"
      [] OTHER -> "none"

\* C16: connectivity and eligibility are tested at the entry of each
\* operation. When processSyncQueue, pushToCloud, pullFromCloud or fullSync
\* is entered for a guest or without a connection, that step returns from
\* the function with zero counts and without an error, issues no remote call
\* and changes no local or remote row (no attempts, no presence); entered
\* connected by a registered owner with pending entries, processSyncQueue
\* starts its loop; and the loop does not test again: each of its turns
\* issues the remote call of its item whatever the connection is by then.
C16_Step ==
    \A t \in Tasks :
        TaskStep(t) =>
            /\ (tasks[t].pc \in {"full", "queue", "push", "pull"} /\ Skips(t)) =>
                  /\ UNCHANGED <<localVars, remoteVars, remoteCallers>>
                  /\ returned'.fn = EntryOfCall(tasks[t].pc)
                  /\ returned'.userId = tasks[t].userId
                  /\ returned'.success = 0 /\ returned'.failed = 0
                  /\ returned'.count = 0 /\ returned'.categories = 0
                  /\ returned'.savedPlaces = 0
            /\ ( /\ tasks[t].pc = "queue" /\ ~Skips(t)
                 /\ Len(PendingItems(sync_queue, tasks[t].userId)) > 0 )
                  => tasks'[t].pc = "drain"
            /\ tasks[t].pc = "drain" =>
                  /\ tasks[t].userId \in remoteCallers'
                  /\ ItemSucceeded(t) \/ ItemFailed(t)

C16_CheckedAtEntry == [][C16_Step]_vars

\* processSyncQueue was called directly by a registered owner while the
\* device was not connected and an untried entry was pending: it has
\* returned {0, 0} and the entry is as it was.
C16_Witness ==
    /\ ~online
    /\ returned.kind = "processSyncQueue"
    /\ returned.fn = "processSyncQueue"
    /\ returned.userId = AccountId
    /\ returned.success = 0 /\ returned.failed = 0
    /\ Len(sync_queue) >= 1
    /\ sync_queue[1].attempts = 0
    /\ remote = EmptyTable

(***************************************************************************)
(* C17.                                                                    *)
(***************************************************************************)
\* The local table tbl2 is tbl with the rows of the ids in W written as
\* Row(id) and every other row as it was.
Overwritten(tbl, tbl2, W, Row(_)) ==
    /\ DOMAIN tbl2 = (DOMAIN tbl) \cup W
    /\ \A id \in W : tbl2[id] = Row(id)
    /\ \A id \in (DOMAIN tbl) \ W : tbl2[id] = tbl[id]

\* C17: pullFromCloud is remote-wins upsert by id. A pull that is not
\* skipped writes, for each entity type whose select returned rows, every
\* remote row of the owner (for reminders: every row with is_deleted false)
\* over the local row of the same id, whatever that row holds: the synced
\* columns take the remote values, is_deleted is 0 and notification_id is
\* NULL; it leaves every other local row, sync_queue and the remote tables as
\* they are, and returns the number of rows written per entity type.
C17_Step ==
    \A t \in Tasks :
        (TaskStep(t) /\ tasks[t].pc = "pull" /\ ~Skips(t)) =>
            LET u == tasks[t].userId
                fetched == {id \in DOMAIN remote :
                               remote[id].user_id = u /\ remote[id].is_deleted = FALSE}
                fetchedCats == {id \in DOMAIN remoteCats : remoteCats[id].user_id = u}
                fetchedPlaces == {id \in DOMAIN remotePlaces : remotePlaces[id].user_id = u}
            IN /\ \E W \in {fetched, {}} :
                     /\ Overwritten(reminders, reminders', W, LAMBDA id :
                            [ user_id |-> u,
                              title |-> remote[id].title,
                              is_completed |-> ToInt(remote[id].is_completed),
                              is_active |-> ToInt(remote[id].is_active),
                              completed_at |-> remote[id].completed_at,
                              is_deleted |-> 0,
                              notification_id |-> NULL ])
                     /\ returned'.count = Cardinality(W)
               /\ \E W \in {fetchedCats, {}} :
                     /\ Overwritten(categories, categories', W, LAMBDA id : [user_id |-> u])
                     /\ returned'.categories = Cardinality(W)
               /\ \E W \in {fetchedPlaces, {}} :
                     /\ Overwritten(saved_places, saved_places', W,
                                    LAMBDA id : [user_id |-> u])
                     /\ returned'.savedPlaces = Cardinality(W)
               /\ returned'.fn = "pullFromCloud"
               /\ UNCHANGED <<remoteVars, sync_queue, users>>

C17_PullRemoteWins == [][C17_Step]_vars

\* A pull has returned {reminders: 1}: the local row holds the remote title
\* "a" although the edit to "b" was the last one made and enqueued on this
\* device, and its notification_id is gone.
C17_Witness ==
    /\ returned.fn = "pullFromCloud"
    /\ returned.count = 1
    /\ "r1" \in DOMAIN reminders
    /\ reminders["r1"].title = "a"
    /\ reminders["r1"].notification_id = NULL
    /\ "title" \in DOMAIN lastEnqueued["r1"]
    /\ lastEnqueued["r1"].title = "b"

(***************************************************************************)
(* C18.                                                                    *)
(***************************************************************************)
\* C18: pushToCloud attempts an upsert for every local reminder of the owner
\* with is_deleted = 0 and for every local category and saved place of the
\* owner, whatever sync_queue holds. At a push that is not skipped every
\* combination of upserts that succeed and upserts that fail is possible (a
\* failure ends nothing); the step writes exactly the rows whose upsert
\* succeeded, returns their number per entity type, and leaves the local
\* tables and sync_queue as they are.
C18_Step ==
    \A t \in Tasks :
        (TaskStep(t) /\ tasks[t].pc = "push" /\ ~Skips(t)) =>
            LET u == tasks[t].userId
                locR == {id \in DOMAIN reminders :
                            reminders[id].user_id = u /\ reminders[id].is_deleted = 0}
                locC == {id \in DOMAIN categories : categories[id].user_id = u}
                locP == {id \in DOMAIN saved_places : saved_places[id].user_id = u}
            IN /\ \A okR \in SUBSET locR, okC \in SUBSET locC, okP \in SUBSET locP :
                     ENABLED PushToCloud(t, okR, okC, okP)
               /\ \E okR \in SUBSET locR :
                     /\ Overwritten(remote, remote', okR, LAMBDA id :
                            [ user_id |-> u,
                              title |-> reminders[id].title,
                              is_completed |-> (reminders[id].is_completed = 1),
                              is_active |-> (reminders[id].is_active = 1),
                              completed_at |-> reminders[id].completed_at,
                              is_deleted |-> FALSE ])
                     /\ returned'.count = Cardinality(okR)
               /\ \E okC \in SUBSET locC :
                     /\ Overwritten(remoteCats, remoteCats', okC, LAMBDA id : [user_id |-> u])
                     /\ returned'.categories = Cardinality(okC)
               /\ \E okP \in SUBSET locP :
                     /\ Overwritten(remotePlaces, remotePlaces', okP,
                                    LAMBDA id : [user_id |-> u])
                     /\ returned'.savedPlaces = Cardinality(okP)
               /\ returned'.fn = "pushToCloud"
               /\ UNCHANGED localVars

ApplyItem(tbls, item, userId) ==
    [ reminders |-> IF item.entity_type = "reminder"
                    THEN syncReminder(tbls.reminders, userId, item.entity_id,
                                      item.operation, item.payload)
                    ELSE tbls.reminders,
      categories |-> IF item.entity_type = "category"
                     THEN syncOwned(tbls.categories, userId, item.entity_id, item.operation)
                     ELSE tbls.categories,
      saved_places |-> IF item.entity_type = "saved_place"
                       THEN syncOwned(tbls.saved_places, userId, item.entity_id,
                                      item.operation)
                       ELSE tbls.saved_places ]

RemoteTables == [reminders |-> remote, categories |-> remoteCats, saved_places |-> remotePlaces]

DeadLettered(q) == {q[i].id : i \in {j \in 1..Len(q) : q[j].attempts >= MAX_ATTEMPTS}}

\* C20: dead-lettered entries are never purged automatically. In every step
\* that is not a return of clearFailedSyncItems each row of sync_queue with
\* attempts >= 3 is still in sync_queue afterwards; a clearFailedSyncItems
\* call removes exactly the rows with attempts >= 3, returns their number
\* and leaves the other rows as they are and in their order.
C20_Step ==
    IF returned'.fn = "clearFailedSyncItems" /\ returned' # returned
    THEN /\ sync_queue' = SelectSeq(sync_queue, LAMBDA e : e.attempts < 3)
         /\ returned'.count = Cardinality(DeadLettered(sync_queue))
    ELSE DeadLettered(sync_queue) \subseteq QueueIds(sync_queue')

C20_DeadLetteredKept == [][C20_Step]_vars

(***************************************************************************)
(* C22.                                                                    *)
(***************************************************************************)
\* C22: in every reachable state of the local store, every reminder with
\* is_completed = 1 has is_active = 0 and a completed_at that is not NULL,
\* whichever path completed it.
C22_CompletedIsInactive ==
    \A id \in DOMAIN reminders :
        reminders[id].is_completed = 1 =>
            /\ reminders[id].is_active = 0
            /\ reminders[id].completed_at # NULL

(***************************************************************************)
(* C26.                                                                    *)
(***************************************************************************)
\* C26: at most one drain of an owner's queue is in flight at a time: no two
\* calls of one owner stand in the loop of processSyncQueue, each with the
\* rows its own SELECT returned, at the same moment.
C26_OneDrainInFlight ==
    \A t1, t2 \in Tasks :
        (t1 # t2 /\ tasks[t1].userId = tasks[t2].userId) =>
            ~(tasks[t1].pc = "drain" /\ tasks[t2].pc = "drain")

(***************************************************************************)
(* C25.                                                                    *)
(***************************************************************************)
\* The attempts of the row with primary key id, -1 when q has no such row.
AttemptsOf(q, id) == IF id \in QueueIds(q) THEN EntryOf(q, id).attempts ELSE -1

\* C25: processSyncQueue does not fail fast. A call that enters its loop
\* holds every row that is pending for the owner at that moment; each turn
\* of the loop makes the remote attempt of the head row and goes on with the
\* rest whatever the outcome, so success + failed + rows left is constant
\* and the call returns success + failed = rows selected; each success
\* counted is a row this call removed, and each failure counted is a row
\* whose attempts this call incremented.
C25_Step ==
    \A t \in Tasks :
        /\ (tasks[t].pc = "queue" /\ tasks'[t].pc = "drain") =>
               /\ {tasks'[t].items[i].id : i \in 1..Len(tasks'[t].items)} =
                     {sync_queue[i].id : i \in {j \in 1..Len(sync_queue) :
                          /\ sync_queue[j].attempts < 3
                          /\ sync_queue[j].user_id = tasks[t].userId}}
               /\ tasks'[t].success = 0 /\ tasks'[t].failed = 0
        /\ ItemStep(t) =>
               LET id == Head(tasks[t].items).id
                   total == tasks[t].success + tasks[t].failed + Len(tasks[t].items)
               IN /\ IF tasks'[t].pc = "drain"
                     THEN /\ tasks'[t].items = Tail(tasks[t].items)
                          /\ tasks'[t].success + tasks'[t].failed
                                + Len(tasks'[t].items) = total
                     ELSE /\ Len(tasks[t].items) = 1
                          /\ returned'.fn = "processSyncQueue"
                          /\ returned'.success + returned'.failed = total
                  /\ ItemSucceeded(t) # ItemFailed(t)
                  /\ ItemSucceeded(t) =>
                        (id \in QueueIds(sync_queue) /\ id \notin QueueIds(sync_queue'))
                  /\ ItemFailed(t) =>
                        /\ id \in QueueIds(sync_queue)
                        /\ AttemptsOf(sync_queue', id) = AttemptsOf(sync_queue, id) + 1

C25_NoFailFast == [][C25_Step]_vars

(***************************************************************************)
(* C28.                                                                    *)
(***************************************************************************)
\* C28: each addToSyncQueue call for an owner who is not a guest adds one
\* row: the queue afterwards is the queue before with one row appended,
\* whose id no earlier row has, with attempts 0, the given owner, entity and
\* operation; no existing row is replaced or dropped. This holds also for two
\* calls for one entity within one tick of the clock.
C28_Step ==
    \A t \in Tasks :
        (TaskStep(t) /\ tasks[t].pc = "sync" /\ ~isGuestUser(tasks[t].userId)) =>
            /\ Len(sync_queue') = Len(sync_queue) + 1
            /\ SubSeq(sync_queue', 1, Len(sync_queue)) = sync_queue
            /\ LET e == sync_queue'[Len(sync_queue')]
               IN /\ e.id \notin QueueIds(sync_queue)
                  /\ e.attempts = 0
                  /\ e.user_id = tasks[t].userId
                  /\ e.entity_type = "reminder"
                  /\ e.entity_id = tasks[t].rid
                  /\ e.operation = tasks[t].op
                  /\ e.payload = tasks[t].data

C28_EnqueueAddsOne == [][C28_Step]_vars

(***************************************************************************)
(* C27.                                                                    *)
(***************************************************************************)
\* The ids whose row in the table new is not the row they have in old.
Written(old, new) ==
    {id \in DOMAIN new : id \notin DOMAIN old \/ new[id] # old[id]}

\* Every row written from old to new carries user_id = u and has its id in
\* from, where it belongs to u.
WrittenFor(old, new, from, u) ==
    \A id \in Written(old, new) :
        /\ new[id].user_id = u
        /\ id \in DOMAIN from
        /\ from[id].user_id = u

\* C27: queue processing is scoped by owner. A drain called for owner A
\* selects exactly the pending rows whose user_id is A or NULL; it never
\* removes or changes a queue row of another owner, and every remote row one
\* of its upserts writes carries user_id = A. pushToCloud(A) writes remote
\* rows only from local rows of A and with user_id = A; pullFromCloud(A)
\* writes local rows only from remote rows of A and with user_id = A.
C27_Step ==
    \A t \in Tasks :
        LET A == tasks[t].userId
        IN /\ (tasks[t].pc = "queue" /\ tasks'[t].pc = "drain") =>
                 {tasks'[t].items[i].id : i \in 1..Len(tasks'[t].items)} =
                    {sync_queue[i].id : i \in {j \in 1..Len(sync_queue) :
                         /\ sync_queue[j].attempts < 3
                         /\ sync_queue[j].user_id \in {A, NoId}}}
           /\ ItemStep(t) =>
                 LET item == Head(tasks[t].items)
                 IN /\ item.id \in QueueIds(sync_queue) =>
                          EntryOf(sync_queue, item.id).user_id \in {A, NoId}
                    /\ \A i \in 1..Len(sync_queue) :
                          sync_queue[i].user_id \notin {A, NoId} =>
                             \E j \in 1..Len(sync_queue') : sync_queue'[j] = sync_queue[i]
                    /\ item.operation \in {"create", "update"} =>
                          /\ \A id \in Written(remote, remote') :
                                remote'[id].user_id = A
                          /\ \A id \in Written(remoteCats, remoteCats') :
                                remoteCats'[id].user_id = A
                          /\ \A id \in Written(remotePlaces, remotePlaces') :
                                remotePlaces'[id].user_id = A
                    /\ UNCHANGED <<reminders, categories, saved_places>>
           /\ (TaskStep(t) /\ tasks[t].pc = "push") =>
                 /\ WrittenFor(remote, remote', reminders, A)
                 /\ WrittenFor(remoteCats, remoteCats', categories, A)
                 /\ WrittenFor(remotePlaces, remotePlaces', saved_places, A)
                 /\ UNCHANGED localVars
           /\ (TaskStep(t) /\ tasks[t].pc = "pull") =>
                 /\ WrittenFor(reminders, reminders', remote, A)
                 /\ WrittenFor(categories, categories', remoteCats, A)
                 /\ WrittenFor(saved_places, saved_places', remotePlaces, A)
                 /\ UNCHANGED <<remoteVars, sync_queue, users>>

C27_OwnerScoped == [][C27_Step]_vars

\* A drain of AccountId has returned after sending the legacy entry: the
\* remote row r3 carries user_id = AccountId, while the entry of the other
\* account is still queued as it was and its local and remote rows are as
\* they were.
C27_Witness ==
    /\ returned.fn = "processSyncQueue"
    /\ returned.userId = AccountId
    /\ returned.success >= 1
    /\ "r3" \in DOMAIN remote
    /\ remote["r3"].user_id = AccountId
    /\ \E i \in 1..Len(sync_queue) : sync_queue[i] = OtherEntry
    /\ \A i \in 1..Len(sync_queue) : sync_queue[i] # LegacyEntry
    /\ reminders["r2"] = OtherReminder
    /\ "r2" \in DOMAIN remote
    /\ remote["r2"].user_id = OtherAccountId


\* C21: reminderRepository.update on an id that is absent or soft-deleted
\* fails with 'Reminder not found' and leaves the table as it is, also when a
\* delete of the same id runs between its awaits: no step of an update writes
\* a row that is absent or soft-deleted, the only error an update ends with is
\* 'Reminder not found', and the UPDATE of a live row changes the columns of
\* the input on that row and nothing else.
UpdateStep(t) == tasks[t].pc \in {"updateRun", "updateReread"} /\ tasks'[t] # tasks[t]

C21_Step ==
    /\ returned'.kind = "error" =>
          /\ returned'.fn = "Reminder not found"
          /\ reminders' = reminders
    /\ \A t \in Tasks :
          UpdateStep(t) =>
             LET id == tasks[t].rid
             IN /\ ~getByIdFound(reminders, id) => reminders' = reminders
                /\ \A x \in DOMAIN reminders \ {id} : reminders'[x] = reminders[x]
                /\ DOMAIN reminders' = DOMAIN reminders
                /\ getByIdFound(reminders, id) =>
                      reminders'[id] \in {reminders[id],
                                          [reminders[id] EXCEPT !.title = tasks[t].data.title]}

C21_UpdateContract == [][C21_Step]_vars


\* C30: getDatabase never returns a handle on which runMigrations has not
\* completed, and runMigrations is called at most once in a process, however
\* the calls of getDatabase overlap.
C30_Step ==
    /\ returned' = DatabaseReturn => migrations'.completed >= 1
    /\ migrations'.started <= 1

C30_MigratedBeforeUse == [][C30_Step]_vars

\* C24: the stored user_version never decreases; a store at a higher version
\* than the code's is left as it is; no step of migration002 is applied to a
\* store that has it already, so that runMigrations ends without an error
\* after a kill or a re-run at any point.
C24_Step ==
    /\ user_version' >= user_version
    /\ user_version > CURRENT_VERSION => (user_version' = user_version /\ schema' = schema)
    /\ returned' # DatabaseError
    /\ \A c \in DbCallers :
          (dbCalls[c].pc = "migration002" /\ dbCalls'[c].pc # "idle"
                                          /\ dbCalls'[c] # dbCalls[c]) =>
              \/ Migration002Statements[dbCalls[c].stmt] \in schema' \ schema
              \/ dbCalls[c].stmt = 3

C24_MigrationMonotonic == [][C24_Step]_vars


\* C23: the table users holds at most one guest row in every reachable
\* state; a continueAsGuest that finds a guest row takes its id and inserts
\* nothing, and one that finds none inserts one row with a fresh guest id.
C23_AtMostOneGuest == Cardinality(GuestRows(users)) <= 1

\* C29: in every state of the auth store isAuthenticated is true exactly
\* when user is not null.
C29_AuthenticatedIffUser == isAuthenticated = (user # NoUser)

====
